---- MODULE Spec2Model ----
(***************************************************************************)
(* Hint / Location transition-system composition engine (src/src/hint.py). *)
(*                                                                         *)
(* A Hint is an ordered list of Locations.  Hint.get_trans_system compiles *)
(* it into an activable symbolic transition system: a list of initial      *)
(* constraints and a list of transition constraints over the location      *)
(* encoding symbols, the transition-type symbols, the active flag, the      *)
(* rank-decrease flag and the symbols of the hint.  The model keeps the    *)
(* hint objects and evaluates the emitted constraints over explicit        *)
(* valuations, so that a run of the model is a run of the compiled system. *)
(***************************************************************************)
EXTENDS Integers, Sequences, FiniteSets, TLC

VARIABLES hints, sts, hist, ret

vars == <<hints, sts, hist, ret>>

(***************************************************************************)
(* Bounds of the model.                                                    *)
(***************************************************************************)
\* values of the integer symbol owned by a hint range over 0..MaxX
MaxX == 2

\* in a joint run of two hints they range over 0..MaxXJoint
MaxXJoint == 1

\* the symbols pc and x of the benchmarks, x ranging over 0..m
Symbs(m) == [pc |-> {0}, x |-> 0..m]


(***************************************************************************)
(* Terms (FNode).  A term is a record [op, a]; the hint engine only looks  *)
(* at a term through is_false() and hands it to the solver otherwise, so   *)
(* the model keeps a small grammar over the owned symbol x and its next    *)
(* state copy x'.                                                          *)
(***************************************************************************)
Term(op, a) == [op |-> op, a |-> a]

TRUE_ == Term("TRUE", 0)

FALSE_ == Term("FALSE", 0)

\* x = c
XEq(c) == Term("x_eq", c)

\* x <= c
XLe(c) == Term("x_le", c)

\* x >= c
XGe(c) == Term("x_ge", c)

\* x' = x + c
NextPlus(c) == Term("nx_plus", c)

None == Term("None", 0)

is_false(t) == t.op = "FALSE"

\* value of term t in the pair of valuations (x, nx) of the owned symbol
Eval(t, x, nx) ==
    CASE t.op = "TRUE" -> TRUE
      [] t.op = "FALSE" -> FALSE
      [] t.op = "x_eq" -> x = t.a
      [] t.op = "x_le" -> x <= t.a
      [] t.op = "x_ge" -> x >= t.a
      [] t.op = "nx_plus" -> nx = x + t.a

(***************************************************************************)
(* RankFun: the rank expression is the owned symbol x, with minimum min.   *)
(***************************************************************************)
RankFun(min) == Term("rf", min)

rf_is_ranked(rf, x) == x > rf.a

rf_is_min(rf, x) == x = rf.a

rf_is_const(rf, x, nx) == nx = x

rf_is_decr(rf, x, nx) == nx < x

(***************************************************************************)
(* Python dictionaries with integer keys are functions over a finite set   *)
(* of integers.  dict.pop(key, None) compares the given key with the       *)
(* stored integer keys: a key object that is not that integer matches      *)
(* nothing.                                                                *)
(***************************************************************************)
EmptyDict == [k \in {} |-> FALSE_]

IntKey(n) == Term("int", n)

dict_get(d, k) == IF k \in DOMAIN d THEN d[k] ELSE None

dict_set(d, k, v) == [j \in (DOMAIN d) \cup {k} |-> IF j = k THEN v ELSE d[j]]

dict_pop(d, key) == [j \in {i \in DOMAIN d : IntKey(i) # key} |-> d[j]]

(***************************************************************************)
(* Location.                                                               *)
(***************************************************************************)
\* Location.__init__: the defaults of the optional arguments;
\* _rankT and _rf, None until set_rank assigns them, are the attributes that
\* set_rank creates
Location(region, assume, stutterT, rankT, rf, progressT) ==
    [region |-> region,
     assume |-> IF assume # None THEN assume ELSE TRUE_,
     stutterT |-> IF stutterT # None THEN stutterT ELSE FALSE_,
     rankT |-> IF rankT # None THEN rankT ELSE FALSE_,
     rf |-> rf,
     progressT |-> progressT,
     _rankT |-> None,
     _rf |-> None]

dsts(loc) == DOMAIN loc.progressT

progress(loc, dst) == dict_get(loc.progressT, dst)

\* Location.set_rank: the arguments are stored in _rankT and _rf
set_rank(loc, trans, rf) == [loc EXCEPT !._rankT = trans, !._rf = rf]

\* Location.set_progress: a FALSE term pops the key t, any other term is stored
set_progress(loc, dst, t) ==
    [loc EXCEPT !.progressT = IF is_false(t) THEN dict_pop(@, t)
                              ELSE dict_set(@, dst, t)]

(***************************************************************************)
(* Lists (0-based, as in the source) are functions over 0..n-1.            *)
(***************************************************************************)
EmptyList == [i \in {} |-> None]

len(l) == Cardinality(DOMAIN l)

append(l, e) == [i \in 0..len(l) |-> IF i = len(l) THEN e ELSE l[i]]

List1(a) == append(EmptyList, a)

List2(a, b) == append(List1(a), b)

(***************************************************************************)
(* Hint.  The fields filled by get_trans_system are kept as tags:          *)
(* ts_loc_symbs / ts_lvals hold the number of allocated symbols / values   *)
(* (0 for None), the selectors and the flag are "None", "val" (a value of  *)
(* the enumeration), "FALSE" (the constant) or "symbol".  allocs counts    *)
(* the times the hint has asked new_enum for symbols: symbols of different *)
(* rounds are different symbols.                                           *)
(***************************************************************************)
\* Hint.__init__; all_symbs maps each symbol to the values it ranges over
Hint(owned_symbs, all_symbs) ==
    [owned_symbs |-> owned_symbs,
     all_symbs |-> all_symbs,
     locs |-> EmptyList,
     ts_loc_symbs |-> 0,
     ts_lvals |-> 0,
     allocs |-> 0,
     t_is_stutter |-> "None",
     t_is_ranked |-> "None",
     t_is_progress |-> "None",
     is_rank_decr |-> "None"]

\* the two assertions guarding Hint.add and Hint.set_locs
is_open(h) == h.ts_loc_symbs = 0 /\ h.ts_lvals = 0

\* Hint.add
add(h, loc) == [h EXCEPT !.locs = append(@, loc)]

\* Hint.set_locs
set_locs(h, locs) == [h EXCEPT !.locs = locs]

\* new_enum: fresh symbols encoding n mutually exclusive values.  The hint
\* only builds formulas from the values, never from the symbols, so a
\* valuation of the symbols is identified by the value that holds in it:
\* 0..n-1, or NoValue when it makes none of the values true.
new_enum(n) == [symbs |-> n, vals |-> n]

NoValue == -1

EnumStates(n) == (0..(n - 1)) \cup {NoValue}

\* value i of an enumeration, in the valuation v of its symbols
enum_val(v, i) == v = i

\* get_trans_system, first part: allocation of the encodings and of the
\* rank-decrease flag
all_rf_none(h) == \A i \in DOMAIN h.locs : h.locs[i].rf = None

\* faulty variant of alloc_enums: the symbols are allocated at every call
alloc_enums_again(h) ==
    [h EXCEPT !.ts_loc_symbs = new_enum(len(h.locs) + 1).symbs,
              !.ts_lvals = new_enum(len(h.locs) + 1).vals,
              !.allocs = @ + 1,
              !.t_is_stutter = "val",
              !.t_is_ranked = "val",
              !.t_is_progress = "val"]

alloc_enums(h) ==
    IF h.ts_loc_symbs = 0
    THEN [h EXCEPT !.ts_loc_symbs = new_enum(len(h.locs) + 1).symbs,
                   !.ts_lvals = new_enum(len(h.locs) + 1).vals,
                   !.allocs = @ + 1,
                   !.t_is_stutter = "val",
                   !.t_is_ranked = "val",
                   !.t_is_progress = "val"]
    ELSE h

\* the assertion made when no location has a ranking function
assert_no_rankT(h) == \A i \in DOMAIN h.locs : is_false(h.locs[i].rankT)

\* faulty variant of set_rank_flag: the flag symbol is made for every hint
set_rank_flag_always(h) == [h EXCEPT !.is_rank_decr = "symbol"]

set_rank_flag(h) ==
    IF all_rf_none(h)
    THEN [h EXCEPT !.t_is_ranked = "FALSE", !.is_rank_decr = "FALSE"]
    ELSE [h EXCEPT !.is_rank_decr = "symbol"]

\* a location without a stutter transition and without a progress edge
no_behaviour(loc) == is_false(loc.stutterT) /\ dsts(loc) = {}

\* faulty variant of get_trans_ok: a location needs a stutter transition or a progress edge
get_trans_ok_behaviour(h, idx) ==
    LET loc == h.locs[idx]
    IN /\ ~no_behaviour(loc)
       /\ (loc.rf = None \/ h.t_is_ranked # "FALSE")
       /\ (~is_false(loc.rankT) => h.t_is_ranked # "FALSE" /\ loc.rf # None)
       /\ \A dst \in dsts(loc) : dst < h.ts_lvals
       /\ (h.is_rank_decr # "FALSE" /\ h.t_is_ranked # "FALSE" => loc.rf # None)

\* faulty variant of get_trans_ok: the clauses of the rank-decrease flag do
\* not ask for a ranking function
get_trans_ok_no_rf(h, idx) ==
    LET loc == h.locs[idx]
    IN /\ (loc.rf = None \/ h.t_is_ranked # "FALSE")
       /\ (~is_false(loc.rankT) => h.t_is_ranked # "FALSE" /\ loc.rf # None)
       /\ \A dst \in dsts(loc) : dst < h.ts_lvals

\* the assertions and list accesses of Location.get_trans for location idx
get_trans_ok(h, idx) ==
    LET loc == h.locs[idx]
    IN /\ (loc.rf = None \/ h.t_is_ranked # "FALSE")
       /\ (~is_false(loc.rankT) => h.t_is_ranked # "FALSE" /\ loc.rf # None)
       /\ \A dst \in dsts(loc) : dst < h.ts_lvals
       /\ (h.is_rank_decr # "FALSE" /\ h.t_is_ranked # "FALSE" => loc.rf # None)

\* whether get_trans_system runs to completion on h
compiles(h) ==
    LET h1 == alloc_enums(h)
    IN /\ (all_rf_none(h1) => assert_no_rankT(h1))
       /\ \A idx \in DOMAIN h1.locs : get_trans_ok(set_rank_flag(h1), idx)

\* the hint object after a get_trans_system call (completed or aborted)
get_trans_system(h) ==
    LET h1 == alloc_enums(h)
    IN IF all_rf_none(h1) /\ ~assert_no_rankT(h1) THEN h1 ELSE set_rank_flag(h1)

(***************************************************************************)
(* The compiled transition system.  A state is a valuation of the symbols  *)
(* of the system: the location encoding symbols (loc), the transition-type *)
(* symbols (typ), the active flag, the rank-decrease flag (decr, a symbol  *)
(* only when a location has a ranking function) and the owned symbol x.    *)
(***************************************************************************)
\* len(TransType)
NumTransType == 3

StateSpace(h) ==
    [loc : EnumStates(h.ts_loc_symbs),
     typ : EnumStates(NumTransType),
     active : BOOLEAN,
     decr : IF h.is_rank_decr = "symbol" THEN BOOLEAN ELSE {FALSE},
     x : h.all_symbs.x]

\* ts_lvals[i] in state s
lval(h, i, s) == enum_val(s.loc, i)

\* inactive = lvals[-1]
inactive(h, s) == lval(h, h.ts_lvals - 1, s)

\* (t_is_stutter, t_is_ranked, t_is_progress) = trans_type_vals
is_stutter(h, s) == enum_val(s.typ, 0)

is_ranked(h, s) == IF h.t_is_ranked = "FALSE" THEN FALSE ELSE enum_val(s.typ, 1)

is_progress(h, s) == enum_val(s.typ, 2)

is_rank_decr(h, s) == IF h.is_rank_decr = "symbol" THEN s.decr ELSE FALSE

\* a predicate over the current state symbols, in state s
holds(t, s) == Eval(t, s.x, s.x)

\* invar: loc = i -> region(i) & assume(i)
invar_region(h, s) ==
    \A i \in DOMAIN h.locs :
        lval(h, i, s) => holds(h.locs[i].region, s) /\ holds(h.locs[i].assume, s)

\* faulty variant of invar_lvals: the disjunction of the location values is not emitted
invar_lvals_dropped(h, s) == TRUE

\* invar: inactive | (\/ loc = i)
invar_lvals(h, s) == \E i \in 0..(h.ts_lvals - 1) : lval(h, i, s)

\* init: ! active -> inactive & trans_type = stutter
init_deactivate(h, s) == ~s.active => inactive(h, s) /\ is_stutter(h, s)

\* init: is_rank_decr <-> t_is_ranked
init_rank_decr(h, s) ==
    h.is_rank_decr # "FALSE" => (is_rank_decr(h, s) <=> is_ranked(h, s))

\* faulty variant of trans_deactivate: the clause is not emitted
trans_deactivate_none(h, s, t) == TRUE

\* faulty variant of trans_deactivate: the selector of the next state is left free
trans_deactivate_no_type(h, s, t) == ~s.active => inactive(h, t)

\* faulty variant of trans_deactivate: the clause constrains the current state
trans_deactivate_curr(h, s, t) == ~s.active => inactive(h, s) /\ is_stutter(h, s)

\* trans: ! active -> inactive' & t_is_stutter'
trans_deactivate(h, s, t) == ~s.active => inactive(h, t) /\ is_stutter(h, t)

\* faulty variant of trans_rank_decr: the flag may be set from nothing
trans_rank_decr_set_only(h, s, t) ==
    h.is_rank_decr # "FALSE" => (is_ranked(h, s) => is_rank_decr(h, t))

\* trans: is_ranked -> x_is_rank_decr,  x_is_rank_decr -> rank_decr | is_ranked
trans_rank_decr(h, s, t) ==
    h.is_rank_decr # "FALSE" =>
        /\ is_ranked(h, s) => is_rank_decr(h, t)
        /\ is_rank_decr(h, t) => is_rank_decr(h, s) \/ is_ranked(h, s)

(***************************************************************************)
(* Location.get_trans: the clauses of location idx across the step s -> t. *)
(***************************************************************************)
\* min_rf is set only when the location has a ranked transition
has_min_rf(loc) == ~is_false(loc.rankT)

\* faulty variant of trans_cfg: every other location is a destination
trans_cfg_any_dst(h, idx, s, t) ==
    LET loc == h.locs[idx]
        min_rf == has_min_rf(loc) => rf_is_min(loc.rf, s.x)
        t_type ==
            \/ ~is_false(loc.stutterT) /\ is_stutter(h, s)
            \/ ~is_false(loc.rankT) /\ is_ranked(h, s) /\ rf_is_ranked(loc.rf, s.x)
            \/ progress(loc, idx) # None /\ is_progress(h, s) /\ min_rf
    IN lval(h, idx, s) =>
           \/ lval(h, idx, t) /\ t_type
           \/ \E dst \in (DOMAIN h.locs) \ {idx} :
                  lval(h, dst, t) /\ is_progress(h, s) /\ min_rf

\* faulty variant of trans_cfg: an edge to another location needs no selector
trans_cfg_no_selector(h, idx, s, t) ==
    LET loc == h.locs[idx]
        min_rf == has_min_rf(loc) => rf_is_min(loc.rf, s.x)
        t_type ==
            \/ ~is_false(loc.stutterT) /\ is_stutter(h, s)
            \/ ~is_false(loc.rankT) /\ is_ranked(h, s) /\ rf_is_ranked(loc.rf, s.x)
            \/ progress(loc, idx) # None /\ is_progress(h, s) /\ min_rf
    IN lval(h, idx, s) =>
           \/ lval(h, idx, t) /\ t_type
           \/ \E dst \in dsts(loc) \ {idx} : lval(h, dst, t) /\ min_rf

\* cfg: loc -> \/ (x_loc & \/ trans_types)
trans_cfg(h, idx, s, t) ==
    LET loc == h.locs[idx]
        min_rf == has_min_rf(loc) => rf_is_min(loc.rf, s.x)
        t_type ==
            \/ ~is_false(loc.stutterT) /\ is_stutter(h, s)
            \/ ~is_false(loc.rankT) /\ is_ranked(h, s) /\ rf_is_ranked(loc.rf, s.x)
            \/ progress(loc, idx) # None /\ is_progress(h, s) /\ min_rf
    IN lval(h, idx, s) =>
           \/ lval(h, idx, t) /\ t_type
           \/ \E dst \in dsts(loc) \ {idx} :
                  lval(h, dst, t) /\ is_progress(h, s) /\ min_rf

\* faulty variant of trans_stutter: the rank is left free
trans_stutter_no_const(h, idx, s, t) ==
    LET loc == h.locs[idx]
    IN ~is_false(loc.stutterT) =>
           (lval(h, idx, s) /\ lval(h, idx, t) /\ is_stutter(h, s) =>
                Eval(loc.stutterT, s.x, t.x))

\* loc & loc' & is_stutter -> stutterT & rf' = rf
trans_stutter(h, idx, s, t) ==
    LET loc == h.locs[idx]
    IN ~is_false(loc.stutterT) =>
           (lval(h, idx, s) /\ lval(h, idx, t) /\ is_stutter(h, s) =>
                /\ Eval(loc.stutterT, s.x, t.x)
                /\ loc.rf # None => rf_is_const(loc.rf, s.x, t.x))

\* faulty variant of trans_ranked: the rank is not required to decrease
trans_ranked_no_decr(h, idx, s, t) ==
    LET loc == h.locs[idx]
    IN ~is_false(loc.rankT) =>
           (lval(h, idx, s) /\ lval(h, idx, t) /\ is_ranked(h, s) =>
                /\ rf_is_ranked(loc.rf, s.x))

\* loc & loc' & is_ranked -> rankT & rf' < rf
trans_ranked(h, idx, s, t) ==
    LET loc == h.locs[idx]
    IN ~is_false(loc.rankT) =>
           (lval(h, idx, s) /\ lval(h, idx, t) /\ is_ranked(h, s) =>
                /\ Eval(loc.rankT, s.x, t.x)
                /\ rf_is_ranked(loc.rf, s.x)
                /\ rf_is_decr(loc.rf, s.x, t.x))

\* faulty variant of trans_progress: the clause is emitted for the first edge only
trans_progress_first(h, idx, s, t) ==
    LET loc == h.locs[idx]
    IN \A dst \in dsts(loc) :
           idx = 0 /\ lval(h, idx, s) /\ lval(h, dst, t) /\ is_progress(h, s) =>
               Eval(loc.progressT[dst], s.x, t.x)

\* loc & loc' & is_progress -> progressT
trans_progress(h, idx, s, t) ==
    LET loc == h.locs[idx]
    IN \A dst \in dsts(loc) :
           lval(h, idx, s) /\ lval(h, dst, t) /\ is_progress(h, s) =>
               Eval(loc.progressT[dst], s.x, t.x)

\* faulty variant of trans_decr_flag: the flag is not cleared at the minimum
trans_decr_flag_no_clear(h, idx, s, t) ==
    LET loc == h.locs[idx]
    IN h.is_rank_decr # "FALSE" /\ h.t_is_ranked # "FALSE" =>
           (lval(h, idx, s) /\ is_rank_decr(h, s) /\ rf_is_ranked(loc.rf, s.x)
                => is_rank_decr(h, t))

\* loc & is_rank_decr & rf > 0 -> x_is_rank_decr
\* loc & is_rank_decr & rf = 0 -> !x_is_rank_decr
trans_decr_flag(h, idx, s, t) ==
    LET loc == h.locs[idx]
    IN h.is_rank_decr # "FALSE" /\ h.t_is_ranked # "FALSE" =>
           /\ lval(h, idx, s) /\ is_rank_decr(h, s) /\ rf_is_ranked(loc.rf, s.x)
                  => is_rank_decr(h, t)
           /\ lval(h, idx, s) /\ is_rank_decr(h, s) /\ rf_is_min(loc.rf, s.x)
                  => ~is_rank_decr(h, t)

get_trans(h, idx, s, t) ==
    /\ trans_cfg(h, idx, s, t)
    /\ trans_stutter(h, idx, s, t)
    /\ trans_ranked(h, idx, s, t)
    /\ trans_progress(h, idx, s, t)
    /\ trans_decr_flag(h, idx, s, t)

(***************************************************************************)
(* The lists res.init and res.trans returned by get_trans_system.          *)
(***************************************************************************)
ts_init(h, s) ==
    /\ invar_lvals(h, s)
    /\ invar_region(h, s)
    /\ init_deactivate(h, s)
    /\ init_rank_decr(h, s)

\* faulty variant of ts_trans: the initial constraints are not copied to the next state
ts_trans_no_invar(h, s, t) ==
    /\ trans_deactivate(h, s, t)
    /\ trans_rank_decr(h, s, t)
    /\ \A idx \in DOMAIN h.locs : get_trans(h, idx, s, t)

ts_trans(h, s, t) ==
    /\ invar_lvals(h, t)
    /\ invar_region(h, t)
    /\ trans_deactivate(h, s, t)
    /\ trans_rank_decr(h, s, t)
    /\ \A idx \in DOMAIN h.locs : get_trans(h, idx, s, t)

\* the states the system may start in, and the successors of state s
InitStates(h) == {s \in StateSpace(h) : ts_init(h, s)}

Succ(h, s) == {t \in StateSpace(h) : ts_trans(h, s, t)}

(***************************************************************************)
(* Hints of the benchmarks and of the end-to-end scenarios.                *)
(***************************************************************************)
\* NonTerminationSimple5: l0 (x = 0) and l1 (x = 1), stutter x' = x
HintSimple5 ==
    LET l0 == set_progress(Location(XEq(0), TRUE_, NextPlus(0), None, None, EmptyDict),
                           1, NextPlus(1))
        l1 == set_progress(Location(XEq(1), TRUE_, NextPlus(0), None, None, EmptyDict),
                           0, NextPlus(-1))
    IN set_locs(Hint({"x"}, Symbs(MaxX)), List2(l0, l1))

\* 4-2Nested: one location with an assumption, a stutter and a progress self-loop
Nested(m) ==
    LET l0 == set_progress(Location(TRUE_, XLe(1), NextPlus(0), None, None, EmptyDict),
                           0, NextPlus(1))
    IN set_locs(Hint({"x"}, Symbs(m)), List1(l0))

HintNested == Nested(MaxX)

\* scenario A: L0 -> L1 on x' = x + 1, L1 -> L0 on x' = x - 1, no stutter
HintScenarioA ==
    LET l0 == set_progress(Location(TRUE_, None, None, None, None, EmptyDict),
                           1, NextPlus(1))
        l1 == set_progress(Location(TRUE_, None, None, None, None, EmptyDict),
                           0, NextPlus(-1))
    IN set_locs(Hint({"x"}, Symbs(MaxX)), List2(l0, l1))

\* scenario B: one location, rank x decreasing on the ranked self-loop,
\* progress self-loop taken at the minimum and setting x to m
ScenarioB(m) ==
    LET l0 == set_progress(Location(TRUE_, None, None, NextPlus(-1), RankFun(0),
                                    EmptyDict),
                           0, NextPlus(m))
    IN set_locs(Hint({"x"}, Symbs(m)), List1(l0))

HintScenarioB == ScenarioB(MaxX)

\* a ranked location with a stutter, progressing to a ranked sink
HintRankedSink ==
    LET l0 == set_progress(Location(XGe(0), None, NextPlus(0), NextPlus(-1),
                                    RankFun(0), EmptyDict),
                           1, NextPlus(0))
        l1 == Location(XLe(1), None, NextPlus(0), NextPlus(-1), RankFun(0), EmptyDict)
    IN set_locs(Hint({"x"}, Symbs(MaxX)), List2(l0, l1))

\* one location with a ranking function and no ranked transition, a stutter
\* and a progress self-loop
HintRankIdle ==
    LET l0 == set_progress(Location(TRUE_, None, NextPlus(0), None, RankFun(0),
                                    EmptyDict),
                           0, NextPlus(0))
    IN set_locs(Hint({"x"}, Symbs(MaxX)), List1(l0))

\* one ranked location whose stutter transition is TRUE, no progress edge
HintRankFree ==
    LET l0 == Location(TRUE_, None, TRUE_, NextPlus(-1), RankFun(0), EmptyDict)
    IN set_locs(Hint({"x"}, Symbs(MaxX)), List1(l0))

HintLib ==
    {HintSimple5, HintNested, HintScenarioA, HintScenarioB, HintRankedSink,
     HintRankIdle, HintRankFree}

(***************************************************************************)
(* Spec: a run of the transition system compiled from one hint.            *)
(* hist records whether a transition was taken, the active flag and the    *)
(* location value of the source state of the last transition, and whether  *)
(* active was false (true) in every state so far.                          *)
(***************************************************************************)
Init ==
    /\ \E h \in HintLib :
           /\ compiles(h)
           /\ hints = <<get_trans_system(h)>>
    /\ \E s \in InitStates(hints[1]) :
           /\ sts = <<s>>
           /\ hist = [stepped |-> FALSE, src_active |-> s.active,
                      src_loc |-> NoValue, src_typ |-> NoValue,
                      src_decr |-> FALSE, src_x |-> s.x,
                      never_active |-> ~s.active, always_active |-> s.active]
    /\ ret = "ok"

Step ==
    /\ \E t \in Succ(hints[1], sts[1]) :
           /\ sts' = <<t>>
           /\ hist' = [stepped |-> TRUE, src_active |-> sts[1].active,
                       src_loc |-> sts[1].loc, src_typ |-> sts[1].typ,
                       src_decr |-> sts[1].decr, src_x |-> sts[1].x,
                       never_active |-> hist.never_active /\ ~t.active,
                       always_active |-> hist.always_active /\ t.active]
    /\ UNCHANGED <<hints, ret>>

Next == Step

Spec == Init /\ [][Next]_vars

(***************************************************************************)
(* Properties of the compiled transition system of one hint.               *)
(***************************************************************************)
\* the location values that hold in the state of hint i
LocValues(i) == {v \in 0..(hints[i].ts_lvals - 1) : lval(hints[i], v, sts[i])}

\* C1: in every reachable state exactly one of the N+1 location values
\* loc=0, ..., loc=N-1, inactive holds
C1_OneLocationValue ==
    \A i \in DOMAIN sts : Cardinality(LocValues(i)) = 1

\* a state reached by a transition in which the hint is at a location
C1_Witness ==
    /\ hist.stepped
    /\ len(hints[1].locs) = 2
    /\ LocValues(1) = {1}

\* C3 as stated: while active has been false at every step, a transition
\* leaves the owned symbol unchanged
C3_OwnedSymbolsFrozen ==
    [][hist'.never_active => sts'[1].x = sts[1].x]_vars

\* C3, amended: while active has been false at every step the hint is at the
\* inactive sentinel with the STUTTER selector, and every value of the owned
\* symbol is a possible next value in a run that keeps active false
C3_InactiveUnconstrained ==
    hist.never_active =>
        LET succ == Succ(hints[1], sts[1])
        IN /\ inactive(hints[1], sts[1])
           /\ is_stutter(hints[1], sts[1])
           /\ \A v \in hints[1].all_symbs.x :
                  \E t \in succ : t.x = v /\ ~t.active

\* a transition was taken from the inactive sentinel with active false in
\* every state, at a value of the owned symbol that no location admits
C3_Witness ==
    /\ hist.stepped
    /\ hist.never_active
    /\ hist.src_loc = hints[1].ts_lvals - 1
    /\ hints[1].locs = HintSimple5.locs
    /\ sts[1].x = MaxX
    /\ MaxX > 1

\* C4: with active false in the initial state the hint starts inactive with
\* the STUTTER selector; a transition from a state where active is false ends
\* inactive with the STUTTER selector; hence the same holds in every state of
\* a run that keeps active false
C4_Deactivation ==
    /\ ~hist.stepped /\ ~sts[1].active =>
           inactive(hints[1], sts[1]) /\ is_stutter(hints[1], sts[1])
    /\ hist.stepped /\ ~hist.src_active =>
           inactive(hints[1], sts[1]) /\ is_stutter(hints[1], sts[1])
    /\ hist.never_active =>
           inactive(hints[1], sts[1]) /\ is_stutter(hints[1], sts[1])

\* a transition from a state where active is false into a state where it is true
C4_Witness ==
    /\ hist.stepped
    /\ ~hist.src_active
    /\ sts[1].active

\* C5: if location i is the current location value, region(i) and assume(i)
\* hold; at the inactive sentinel no value of the owned symbol is excluded
C5_RegionAssume ==
    /\ \A i \in DOMAIN hints[1].locs :
           lval(hints[1], i, sts[1]) =>
               /\ holds(hints[1].locs[i].region, sts[1])
               /\ holds(hints[1].locs[i].assume, sts[1])
    /\ inactive(hints[1], sts[1]) =>
           \A v \in hints[1].all_symbs.x :
               invar_region(hints[1], [sts[1] EXCEPT !.x = v])

\* the target state of a transition is at a location whose region is not TRUE
C5_Witness ==
    /\ hist.stepped
    /\ \E i \in DOMAIN hints[1].locs :
           /\ lval(hints[1], i, sts[1])
           /\ hints[1].locs[i].region = XEq(1)

(***************************************************************************)
(* End-to-end scenario A.                                                  *)
(***************************************************************************)
IsScenarioA == hints[1].locs = HintScenarioA.locs

\* C7 as stated: in a run of scenario A that keeps active true, every
\* transition changes x by +1 or by -1
C7_ActiveAlternates ==
    [][IsScenarioA /\ hist'.always_active =>
           sts'[1].x = sts[1].x + 1 \/ sts'[1].x = sts[1].x - 1]_vars

\* C7, amended: in scenario A every transition from L0 sets x' = x + 1 and
\* ends in L1, every transition from L1 sets x' = x - 1 and ends in L0; with
\* active true and the PROGRESS selector that transition exists; at the
\* inactive sentinel, with active true, x may take any next value
C7_ScenarioA ==
    IsScenarioA =>
        LET h == hints[1]
            s == sts[1]
            succ == Succ(h, s)
            goes(t) == t.active /\ is_progress(h, t)
        IN /\ lval(h, 0, s) =>
                  \A t \in succ : t.x = s.x + 1 /\ lval(h, 1, t)
           /\ lval(h, 1, s) =>
                  \A t \in succ : t.x = s.x - 1 /\ lval(h, 0, t)
           /\ lval(h, 0, s) /\ goes(s) /\ s.x + 1 \in h.all_symbs.x =>
                  \E t \in succ : goes(t)
           /\ lval(h, 1, s) /\ goes(s) /\ s.x - 1 \in h.all_symbs.x =>
                  \E t \in succ : goes(t)
           /\ inactive(h, s) /\ s.active =>
                  \A v \in h.all_symbs.x : \E t \in succ : t.x = v /\ t.active

\* scenario A has taken the edge L0 -> L1 and can take the edge L1 -> L0
C7_Witness ==
    /\ IsScenarioA
    /\ hist.stepped
    /\ hist.src_loc = 0
    /\ hist.always_active
    /\ lval(hints[1], 1, sts[1])
    /\ is_progress(hints[1], sts[1])

(***************************************************************************)
(* SpecB: end-to-end scenario B, a run of the system compiled from the     *)
(* single-location ranked hint.  hist also counts the RANKED self-loops    *)
(* taken since the hint entered the location or took its last PROGRESS     *)
(* step (ranked_cnt, capped) and keeps the rank at that point              *)
(* (start_rank).                                                           *)
(***************************************************************************)
\* the cap of the counter of RANKED steps
CntCap == MaxX + 2

\* a RANKED self-loop of location idx across s -> t
ranked_step(h, idx, s, t) == lval(h, idx, s) /\ lval(h, idx, t) /\ is_ranked(h, s)

\* a PROGRESS step out of location idx across s -> t
progress_step(h, idx, s, t) ==
    lval(h, idx, s) /\ ~inactive(h, t) /\ is_progress(h, s)

InitB ==
    /\ compiles(HintScenarioB)
    /\ hints = <<get_trans_system(HintScenarioB)>>
    /\ \E s \in InitStates(hints[1]) :
           /\ sts = <<s>>
           /\ hist = [stepped |-> FALSE, src_active |-> s.active,
                      src_loc |-> NoValue,
                      never_active |-> ~s.active, always_active |-> s.active,
                      ranked_cnt |-> 0, start_rank |-> s.x]
    /\ ret = "ok"

StepB ==
    /\ \E t \in Succ(hints[1], sts[1]) :
           LET ranked == ranked_step(hints[1], 0, sts[1], t)
           IN /\ sts' = <<t>>
              /\ hist' = [stepped |-> TRUE, src_active |-> sts[1].active,
                          src_loc |-> sts[1].loc,
                          never_active |-> hist.never_active /\ ~t.active,
                          always_active |-> hist.always_active /\ t.active,
                          ranked_cnt |-> IF ~ranked THEN 0
                                         ELSE IF hist.ranked_cnt < CntCap
                                              THEN hist.ranked_cnt + 1
                                              ELSE CntCap,
                          start_rank |-> IF ranked THEN hist.start_rank ELSE t.x]
    /\ UNCHANGED <<hints, ret>>

NextB == StepB

SpecB == InitB /\ [][NextB]_vars

\* C8: in scenario B the RANKED self-loops taken since the last PROGRESS step
\* plus the distance of the rank from its minimum never exceed the rank at
\* the start; at the location every transition is a RANKED self-loop from a
\* rank above the minimum to a smaller rank, or a PROGRESS step from the
\* minimum, so a PROGRESS step follows after at most start_rank RANKED steps
C8_RankedBounded ==
    LET h == hints[1]
        s == sts[1]
        rf == h.locs[0].rf
        succ == Succ(h, s)
    IN lval(h, 0, s) =>
           /\ hist.ranked_cnt + (s.x - rf.a) <= hist.start_rank - rf.a
           /\ \A t \in succ :
                  \/ ranked_step(h, 0, s, t) /\ s.x > rf.a /\ t.x < s.x
                  \/ progress_step(h, 0, s, t) /\ s.x = rf.a
           /\ s.active /\ is_ranked(h, s) /\ s.x > rf.a =>
                  \E t \in succ : ranked_step(h, 0, s, t)
           /\ s.active /\ is_progress(h, s) /\ s.x = rf.a =>
                  \E t \in succ : progress_step(h, 0, s, t)

\* the rank has gone from MaxX down to its minimum by RANKED self-loops and
\* the PROGRESS step is selected
C8_Witness ==
    /\ hist.ranked_cnt = MaxX
    /\ hist.start_rank = MaxX
    /\ MaxX > 0
    /\ sts[1].x = 0
    /\ lval(hints[1], 0, sts[1])
    /\ is_progress(hints[1], sts[1])
    /\ sts[1].active

(***************************************************************************)
(* Cross-hint arbitration.                                                 *)
(***************************************************************************)
\* faulty variant of at_most_1_ranked: the antecedent leaves out the rank-decrease flag
at_most_1_ranked_no_flag(hs, ss) ==
    \A i \in DOMAIN hs :
        hs[i].t_is_ranked # "FALSE" =>
            (is_ranked(hs[i], ss[i]) =>
                 \A o \in DOMAIN hs \ {i} : is_stutter(hs[o], ss[o]))

\* Hint.at_most_1_ranked: the conjunction of the emitted formulas in the
\* joint state ss of the hints hs
at_most_1_ranked(hs, ss) ==
    \A i \in DOMAIN hs :
        hs[i].t_is_ranked # "FALSE" =>
            (is_ranked(hs[i], ss[i]) \/ is_rank_decr(hs[i], ss[i]) =>
                 \A o \in DOMAIN hs \ {i} : is_stutter(hs[o], ss[o]))

(***************************************************************************)
(* SpecJoint: a joint run of two compiled hints, each over its own owned   *)
(* symbol, in which the formulas of at_most_1_ranked hold at every step.   *)
(***************************************************************************)
JointLib ==
    {<<ScenarioB(MaxXJoint), ScenarioB(MaxXJoint)>>,
     <<ScenarioB(MaxXJoint), Nested(MaxXJoint)>>}

InitJoint ==
    /\ \E hs \in JointLib :
           /\ \A i \in DOMAIN hs : compiles(hs[i])
           /\ hints = [i \in DOMAIN hs |-> get_trans_system(hs[i])]
    /\ \E s1 \in InitStates(hints[1]), s2 \in InitStates(hints[2]) :
           /\ at_most_1_ranked(hints, <<s1, s2>>)
           /\ sts = <<s1, s2>>
    /\ hist = [stepped |-> FALSE]
    /\ ret = "ok"

StepJoint ==
    /\ \E t1 \in Succ(hints[1], sts[1]), t2 \in Succ(hints[2], sts[2]) :
           /\ at_most_1_ranked(hints, <<t1, t2>>)
           /\ sts' = <<t1, t2>>
    /\ hist' = [stepped |-> TRUE]
    /\ UNCHANGED <<hints, ret>>

NextJoint == StepJoint

SpecJoint == InitJoint /\ [][NextJoint]_vars

\* the hints whose RANKED selector or rank-decrease flag is true
RankedHints ==
    {i \in DOMAIN hints :
         is_ranked(hints[i], sts[i]) \/ is_rank_decr(hints[i], sts[i])}

\* C2: at most one hint has its RANKED selector or its rank-decrease flag true
C2_AtMostOneRanked == Cardinality(RankedHints) <= 1

\* after a transition the second of two ranked hints holds the flag
C2_Witness ==
    /\ hist.stepped
    /\ hints[1].is_rank_decr = "symbol"
    /\ hints[2].is_rank_decr = "symbol"
    /\ RankedHints = {2}
    /\ is_rank_decr(hints[2], sts[2])
    /\ ~is_ranked(hints[2], sts[2])

(***************************************************************************)
(* SpecHint: the life of one Hint object under any sequence of add,        *)
(* set_locs and get_trans_system calls.  ret records the last call: its    *)
(* name, its outcome, whether the hint was open and the location list      *)
(* before it.  hist records whether get_trans_system was ever called and   *)
(* the location list at its first call.                                    *)
(***************************************************************************)
\* a hint holds at most MaxLocs locations
MaxLocs == 2

\* the locations handed to add and set_locs
LocLib ==
    {HintSimple5.locs[0], HintSimple5.locs[1], HintScenarioB.locs[0],
     Location(TRUE_, None, NextPlus(0), None, None, EmptyDict),
     Location(TRUE_, None, None, None, None, EmptyDict)}

LocLists == UNION {[0..(n - 1) -> LocLib] : n \in 0..MaxLocs}

InitHint ==
    /\ hints = <<Hint({"x"}, Symbs(MaxX))>>
    /\ sts = <<>>
    /\ hist = [compiled |-> FALSE, locs_at_compile |-> EmptyList]
    /\ ret = [call |-> "init", result |-> "ok", was_open |-> TRUE,
              locs_before |-> EmptyList]

\* faulty variant of AddCall: the assertions on ts_loc_symbs and ts_lvals are missing
AddCall_unguarded ==
    /\ is_open(hints[1]) => len(hints[1].locs) < MaxLocs
    /\ \E loc \in LocLib :
           /\ hints' = <<add(hints[1], loc)>>
           /\ ret' = [call |-> "add", result |-> "ok",
                      was_open |-> is_open(hints[1]),
                      locs_before |-> hints[1].locs]
    /\ UNCHANGED <<sts, hist>>

\* h.add(loc)
AddCall ==
    /\ is_open(hints[1]) => len(hints[1].locs) < MaxLocs
    /\ \E loc \in LocLib :
           IF is_open(hints[1])
           THEN /\ hints' = <<add(hints[1], loc)>>
                /\ ret' = [call |-> "add", result |-> "ok", was_open |-> TRUE,
                           locs_before |-> hints[1].locs]
           ELSE /\ hints' = hints
                /\ ret' = [call |-> "add", result |-> "AssertionError",
                           was_open |-> FALSE, locs_before |-> hints[1].locs]
    /\ UNCHANGED <<sts, hist>>

\* h.set_locs(locs)
SetLocsCall ==
    /\ \E locs \in LocLists :
           IF is_open(hints[1])
           THEN /\ hints' = <<set_locs(hints[1], locs)>>
                /\ ret' = [call |-> "set_locs", result |-> "ok", was_open |-> TRUE,
                           locs_before |-> hints[1].locs]
           ELSE /\ hints' = hints
                /\ ret' = [call |-> "set_locs", result |-> "AssertionError",
                           was_open |-> FALSE, locs_before |-> hints[1].locs]
    /\ UNCHANGED <<sts, hist>>

\* h.get_trans_system(active): completes, or aborts in an assertion or a list
\* access after the encodings were allocated
GetTransSystemCall ==
    /\ hints' = <<get_trans_system(hints[1])>>
    /\ ret' = [call |-> "get_trans_system",
               result |-> IF compiles(hints[1]) THEN "ok" ELSE "abort",
               was_open |-> is_open(hints[1]),
               locs_before |-> hints[1].locs]
    /\ hist' = IF hist.compiled THEN hist
               ELSE [compiled |-> TRUE, locs_at_compile |-> hints[1].locs]
    /\ UNCHANGED sts

NextHint == AddCall \/ SetLocsCall \/ GetTransSystemCall

SpecHint == InitHint /\ [][NextHint]_vars

\* C6: the hint is Open until the first get_trans_system call and Compiled
\* afterwards; an add or set_locs call on an Open hint succeeds and changes
\* the list, on a Compiled hint it aborts with an assertion failure and the
\* location list stays the one of the first compilation
C6_OpenCompiled ==
    LET h == hints[1]
        mutator == ret.call \in {"add", "set_locs"}
    IN /\ is_open(h) <=> ~hist.compiled
       /\ hist.compiled => h.locs = hist.locs_at_compile
       /\ mutator /\ ret.was_open => ret.result = "ok"
       /\ mutator /\ ~ret.was_open =>
              ret.result = "AssertionError" /\ h.locs = ret.locs_before
       /\ ret.call = "add" /\ ret.was_open =>
              /\ len(h.locs) = len(ret.locs_before) + 1
              /\ \A i \in DOMAIN ret.locs_before : h.locs[i] = ret.locs_before[i]

\* add was called on a compiled hint holding one location
C6_Witness ==
    /\ hist.compiled
    /\ ret.call = "add"
    /\ ~ret.was_open
    /\ len(hints[1].locs) = 1

\* C11 as stated: get_trans_system aborts (in Location.get_trans, before any
\* clause of the location is emitted) when a location of the hint has
\* neither a non-FALSE stutter transition nor a progress edge
C11_NoBehaviourAborts ==
    /\ ret.call = "get_trans_system"
    /\ \E i \in DOMAIN ret.locs_before : no_behaviour(ret.locs_before[i])
    => ret.result = "abort"

\* no location has a ranking function or a ranked transition
unranked(locs) ==
    \A i \in DOMAIN locs : locs[i].rf = None /\ is_false(locs[i].rankT)

\* C11, amended: get_trans checks the selectors it is given, not the
\* transitions of the location: a hint without ranking functions compiles
\* also when a location has neither a stutter transition nor a progress
\* edge, and the compiled system has no transition out of such a location
C11_NoBehaviourCompiles ==
    ret.call = "get_trans_system" /\ unranked(ret.locs_before) =>
        /\ ret.result = "ok"
        /\ \A i \in DOMAIN hints[1].locs :
               no_behaviour(hints[1].locs[i]) =>
                   \A s \in StateSpace(hints[1]) :
                       lval(hints[1], i, s) => Succ(hints[1], s) = {}

\* a hint whose second location has neither a stutter transition nor a
\* progress edge was compiled
C11_Witness ==
    /\ ret.call = "get_trans_system"
    /\ ret.result = "ok"
    /\ len(hints[1].locs) = 2
    /\ ~no_behaviour(hints[1].locs[0])
    /\ no_behaviour(hints[1].locs[1])

\* C25: after get_trans_system has completed on a hint none of whose
\* locations has a ranking function, the RANKED selector and the
\* rank-decrease flag are the constant FALSE, the system has no flag symbol,
\* no state whose transition type is the RANKED value has a self-loop, and
\* the formulas of at_most_1_ranked for two such hints hold in every state
C25_UnrankedCollapsed ==
    LET h == hints[1]
    IN ret.call = "get_trans_system" /\ ret.result = "ok" /\ all_rf_none(h) =>
           /\ h.t_is_ranked = "FALSE"
           /\ h.is_rank_decr = "FALSE"
           /\ \A s \in StateSpace(h) :
                  /\ ~s.decr
                  /\ \A i \in DOMAIN h.locs :
                         lval(h, i, s) /\ enum_val(s.typ, 1) =>
                             \A t \in Succ(h, s) : ~lval(h, i, t)
                  /\ \A s2 \in StateSpace(h) : at_most_1_ranked(<<h, h>>, <<s, s2>>)

\* NonTerminationSimple5, which has no ranking function, was compiled
C25_Witness ==
    /\ ret.call = "get_trans_system"
    /\ ret.result = "ok"
    /\ all_rf_none(hints[1])
    /\ hints[1].locs = HintSimple5.locs
    /\ hints[1].t_is_ranked = "FALSE"

\* C27: a get_trans_system call that completes on a compiled hint leaves the
\* encoding symbols and every compiled field as the first call made them,
\* and the initial states and the transitions of the system it returns are
\* those of the system before the call
C27_SecondCallSame ==
    [][ret'.call = "get_trans_system" /\ ~ret'.was_open /\ ret'.result = "ok" =>
           /\ hints'[1].locs = hints[1].locs
           /\ hints'[1].allocs = hints[1].allocs
           /\ hints'[1] = hints[1]
           /\ InitStates(hints'[1]) = InitStates(hints[1])
           /\ \A s \in InitStates(hints[1]) :
                  Succ(hints'[1], s) = Succ(hints[1], s)]_vars

\* get_trans_system was called again on a compiled hint of two locations
C27_Witness ==
    /\ ret.call = "get_trans_system"
    /\ ret.result = "ok"
    /\ ~ret.was_open
    /\ hints[1].allocs = 1
    /\ len(hints[1].locs) = 2

\* some location of the list has a ranking function and some has none
mixed_rf(locs) ==
    /\ \E i \in DOMAIN locs : locs[i].rf = None
    /\ \E i \in DOMAIN locs : locs[i].rf # None

\* C34: get_trans_system completes only when no location or every location
\* has a ranking function; on a hint with both kinds it aborts, and the
\* locations whose clauses cannot be emitted are those without one
C34_MixedAborts ==
    ret.call = "get_trans_system" =>
        /\ ret.result = "ok" => ~mixed_rf(ret.locs_before)
        /\ mixed_rf(ret.locs_before) =>
               /\ ret.result = "abort"
               /\ \A idx \in DOMAIN hints[1].locs :
                      ~get_trans_ok(hints[1], idx) <=> hints[1].locs[idx].rf = None

\* get_trans_system aborted on a ranked location followed by one without a
\* ranking function
C34_Witness ==
    /\ ret.call = "get_trans_system"
    /\ ret.result = "abort"
    /\ len(ret.locs_before) = 2
    /\ ret.locs_before[0].rf # None
    /\ ret.locs_before[1].rf = None

\* C36: get_trans_system completes only if every progress destination is
\* smaller than the number of locations
C36_ValidDestinations ==
    ret.call = "get_trans_system" /\ ret.result = "ok" =>
        \A idx \in DOMAIN ret.locs_before :
            \A dst \in dsts(ret.locs_before[idx]) : dst < len(ret.locs_before)

(***************************************************************************)
(* SpecLoc: one Location object under any sequence of set_progress calls.  *)
(* The location is the first one of the hint in hints; ret records the     *)
(* last call and the edge stored for its destination before the call.      *)
(***************************************************************************)
\* destinations handed to set_progress range over 0..MaxDst
MaxDst == 2

\* the transition terms handed to set_progress
ProgressTerms == {FALSE_, TRUE_, NextPlus(1), NextPlus(-1)}

InitLoc ==
    /\ \E loc \in LocLib : hints = <<add(Hint({"x"}, Symbs(MaxX)), loc)>>
    /\ sts = <<>>
    /\ hist = [stepped |-> FALSE]
    /\ ret = [call |-> "init", dst |-> 0, t |-> None, before |-> None]

\* loc.set_progress(dst, t)
SetProgressCall ==
    /\ \E dst \in 0..MaxDst, t \in ProgressTerms :
           /\ hints' = <<[hints[1] EXCEPT
                              !.locs[0] = set_progress(hints[1].locs[0], dst, t)]>>
           /\ ret' = [call |-> "set_progress", dst |-> dst, t |-> t,
                      before |-> progress(hints[1].locs[0], dst)]
    /\ hist' = [stepped |-> TRUE]
    /\ UNCHANGED sts

NextLoc == SetProgressCall

SpecLoc == InitLoc /\ [][NextLoc]_vars

\* C10: after set_progress(dst, t) with t the FALSE term, progress(dst) is
\* None and dst is not in dsts, whatever edge to dst was stored before
C10_FalseRemovesEdge ==
    ret.call = "set_progress" /\ is_false(ret.t) =>
        /\ progress(hints[1].locs[0], ret.dst) = None
        /\ ret.dst \notin dsts(hints[1].locs[0])

(***************************************************************************)
(* SpecRank: one Location object under set_rank calls, alone in a hint     *)
(* that get_trans_system may compile.  ret records the last call and the   *)
(* arguments of set_rank.                                                  *)
(***************************************************************************)
\* the ranking functions handed to set_rank: x with minimum 0..MaxMin
MaxMin == 1

InitRank ==
    /\ \E loc \in LocLib : hints = <<add(Hint({"x"}, Symbs(MaxX)), loc)>>
    /\ sts = <<>>
    /\ hist = [stepped |-> FALSE]
    /\ ret = [call |-> "init", trans |-> None, rf |-> None]

\* loc.set_rank(trans, rf)
SetRankCall ==
    /\ \E trans \in ProgressTerms, min \in 0..MaxMin :
           /\ hints' = <<[hints[1] EXCEPT
                              !.locs[0] = set_rank(hints[1].locs[0], trans,
                                                   RankFun(min))]>>
           /\ ret' = [call |-> "set_rank", trans |-> trans, rf |-> RankFun(min)]
    /\ hist' = [stepped |-> TRUE]
    /\ UNCHANGED sts

\* h.get_trans_system(active) on the hint of the location
GetTransSystemRankCall ==
    /\ compiles(hints[1])
    /\ hints' = <<get_trans_system(hints[1])>>
    /\ ret' = [call |-> "get_trans_system", trans |-> None, rf |-> None]
    /\ hist' = [stepped |-> TRUE]
    /\ UNCHANGED sts

NextRank == SetRankCall \/ GetTransSystemRankCall

SpecRank == InitRank /\ [][NextRank]_vars

\* the system compiled from h has a RANKED self-loop at location idx
has_ranked_loop(h, idx) ==
    /\ compiles(h)
    /\ LET c == get_trans_system(h)
       IN \E s \in StateSpace(c) :
              /\ lval(c, idx, s)
              /\ is_ranked(c, s)
              /\ \E t \in Succ(c, s) : lval(c, idx, t)

\* C35: after set_rank(trans, rf) the ranked transition and the ranking
\* function of the location are trans and rf, and with a ranked transition
\* that is not FALSE the location has a RANKED self-loop once compiled
C35_SetRank ==
    ret.call = "set_rank" =>
        LET loc == hints[1].locs[0]
        IN /\ loc.rankT = ret.trans
           /\ loc.rf = ret.rf
           /\ is_open(hints[1]) /\ ~is_false(ret.trans) =>
                  has_ranked_loop(hints[1], 0)

(***************************************************************************)
(* SpecDisjoint: Hint.disjoint_symbs on a list of hints with their active  *)
(* flags.  hints is the list (0-based), sts the valuation of the active    *)
(* flags, ret the emitted formulas once the call was made.                 *)
(***************************************************************************)
\* the list holds at most MaxHints hints
MaxHints == 3

SymbNames == {"x", "y"}

\* faulty variant of h_lst: the slice of the later hints starts one hint too late
h_lst_skip(hs, idx) ==
    {j \in DOMAIN hs :
         j > idx + 1 /\ hs[idx].owned_symbs \cap hs[j].owned_symbs # {}}

\* for idx: the later hints that share an owned symbol with hints[idx]
h_lst(hs, idx) ==
    {j \in DOMAIN hs : j > idx /\ hs[idx].owned_symbs \cap hs[j].owned_symbs # {}}

\* Hint.disjoint_symbs: the formulas active[idx] -> And(Not(p) for p in h_lst),
\* in the order they are yielded
disjoint_symbs(hs) ==
    LET all == [i \in 1..len(hs) |-> [h0 |-> i - 1, negated |-> h_lst(hs, i - 1)]]
        emitted(f) == f.negated # {}
    IN SelectSeq(all, emitted)

\* value of an emitted formula under the valuation act of the active flags
holds_implication(f, act) == act[f.h0] => \A j \in f.negated : ~act[j]

InitDisjoint ==
    /\ \E n \in 0..MaxHints :
           /\ \E owned \in [0..(n - 1) -> SUBSET SymbNames] :
                  hints = [i \in 0..(n - 1) |-> Hint(owned[i], Symbs(MaxX))]
           /\ sts \in [0..(n - 1) -> BOOLEAN]
    /\ hist = [stepped |-> FALSE]
    /\ ret = [call |-> "init", out |-> <<>>]

DisjointSymbsCall ==
    /\ ret.call = "init"
    /\ ret' = [call |-> "disjoint_symbs", out |-> disjoint_symbs(hints)]
    /\ hist' = [stepped |-> TRUE]
    /\ UNCHANGED <<hints, sts>>

NextDisjoint == DisjointSymbsCall

SpecDisjoint == InitDisjoint /\ [][NextDisjoint]_vars

\* two hints that share an owned symbol and are both active
ActiveConflicts ==
    {p \in (DOMAIN hints) \X (DOMAIN hints) :
         /\ p[1] < p[2]
         /\ hints[p[1]].owned_symbs \cap hints[p[2]].owned_symbs # {}
         /\ sts[p[1]] /\ sts[p[2]]}

\* the hints that share an owned symbol with a later hint of the list
ConflictingHints ==
    {i \in DOMAIN hints :
         \E j \in DOMAIN hints :
             j > i /\ hints[i].owned_symbs \cap hints[j].owned_symbs # {}}

\* C9: the emitted formulas are all true exactly when no two hints sharing an
\* owned symbol are both active; one implication is emitted per hint that
\* conflicts with a later hint, and it names only hints it conflicts with
C9_DisjointSymbs ==
    ret.call = "disjoint_symbs" =>
        /\ (\A k \in DOMAIN ret.out : holds_implication(ret.out[k], sts))
               <=> ActiveConflicts = {}
        /\ Len(ret.out) = Cardinality(ConflictingHints)
        /\ {ret.out[k].h0 : k \in DOMAIN ret.out} = ConflictingHints
        /\ \A k \in DOMAIN ret.out :
               \A j \in ret.out[k].negated :
                   hints[ret.out[k].h0].owned_symbs \cap hints[j].owned_symbs # {}

\* three hints, the first and the last share a symbol, the middle one is
\* unconstrained and active, and the formulas are violated
C9_Witness ==
    /\ ret.call = "disjoint_symbs"
    /\ len(hints) = 3
    /\ hints[0].owned_symbs \cap hints[1].owned_symbs = {}
    /\ hints[1].owned_symbs \cap hints[2].owned_symbs = {}
    /\ hints[0].owned_symbs \cap hints[2].owned_symbs # {}
    /\ sts[0] /\ sts[1] /\ sts[2]
    /\ Len(ret.out) = 1

(***************************************************************************)
(* The correctness checkers _is_stutter_correct, _is_rank_correct and      *)
(* _is_progress_correct.  Each walks the edges of the hint in order; for   *)
(* every edge it asks the solver whether the edge can be taken at all      *)
(* (probe) and, if so, asks the exists-forall oracle efesolve for a        *)
(* counterexample of the edge's condition.  The answers of the solver and  *)
(* of the oracle are inputs of the call: oracle[k] holds the answers for   *)
(* the k-th edge.                                                          *)
(***************************************************************************)
\* solver.solve(): True, False, or SolverReturnedUnknownResultError
ProbeResults == {"sat", "unsat", "unknown"}

\* model returned by efesolve: None, False, or a counterexample
EfResults == {"None", "False", "model"}

Answers == [probe : ProbeResults, ef : EfResults]

\* the elements of a set of integers in increasing order
RECURSIVE sorted(_)
sorted(S) ==
    IF S = {} THEN <<>>
    ELSE LET m == CHOOSE x \in S : \A y \in S : x <= y
         IN <<m>> \o sorted(S \ {m})

\* for src_idx, src_l in enumerate(self): one edge per location
stutter_edges(h) == [k \in 1..len(h.locs) |-> [src |-> k - 1, dst |-> k - 1]]

\* locations without a ranking function are skipped
rank_edges(h) ==
    LET has_rf(e) == h.locs[e.src].rf # None
    IN SelectSeq(stutter_edges(h), has_rf)

\* for src_idx, src_l in enumerate(self): for dst_idx in src_l.dsts
RECURSIVE progress_edges(_, _)
progress_edges(h, src) ==
    IF src >= len(h.locs) THEN <<>>
    ELSE LET d == sorted(dsts(h.locs[src]))
         IN [k \in 1..Len(d) |-> [src |-> src, dst |-> d[k]]]
                \o progress_edges(h, src + 1)

edges_of(kind, h) ==
    CASE kind = "stutter" -> stutter_edges(h)
      [] kind = "rank" -> rank_edges(h)
      [] kind = "progress" -> progress_edges(h, 0)

\* dst_l = self[dst_idx]: Hint.__getitem__ asserts idx < len(self)
edge_in_range(kind, h, e) == kind = "progress" => e.dst < len(h.locs)

\* faulty variant of check_edge: the oracle is asked also when the probe is unsatisfiable
check_edge_no_skip(in_range, ans) ==
    IF ~in_range
    THEN [stop |-> TRUE, result |-> "AssertionError", msg |-> "None"]
    ELSE IF ans.probe = "unknown"
    THEN [stop |-> TRUE, result |-> "None", msg |-> "might be empty"]
    ELSE IF ans.ef = "None"
    THEN [stop |-> TRUE, result |-> "None", msg |-> "unknown"]
    ELSE IF ans.ef # "False"
    THEN [stop |-> TRUE, result |-> "False", msg |-> "violated"]
    ELSE [stop |-> FALSE, result |-> "True", msg |-> "None"]

\* faulty variant of check_edge: the answer of the oracle is tested for truth only
check_edge_truthy(in_range, ans) ==
    IF ~in_range
    THEN [stop |-> TRUE, result |-> "AssertionError", msg |-> "None"]
    ELSE IF ans.probe = "unknown"
    THEN [stop |-> TRUE, result |-> "None", msg |-> "might be empty"]
    ELSE IF ans.probe = "sat" /\ ans.ef = "model"
    THEN [stop |-> TRUE, result |-> "False", msg |-> "violated"]
    ELSE [stop |-> FALSE, result |-> "True", msg |-> "None"]

\* the body of the loop for one edge: the value returned, or stop = FALSE
\* when the loop goes on to the next edge
check_edge(in_range, ans) ==
    IF ~in_range
    THEN [stop |-> TRUE, result |-> "AssertionError", msg |-> "None"]
    ELSE IF ans.probe = "unknown"
    THEN [stop |-> TRUE, result |-> "None", msg |-> "might be empty"]
    ELSE IF ans.probe = "sat" /\ ans.ef = "None"
    THEN [stop |-> TRUE, result |-> "None", msg |-> "unknown"]
    ELSE IF ans.probe = "sat" /\ ans.ef # "False"
    THEN [stop |-> TRUE, result |-> "False", msg |-> "violated"]
    ELSE [stop |-> FALSE, result |-> "True", msg |-> "None"]

\* faulty variant of check_edges: an edge without an answer does not end the
\* loop when a later edge is violated
RECURSIVE check_edges_on(_, _, _, _, _)
check_edges_on(kind, h, edges, oracle, k) ==
    IF k > Len(edges)
    THEN [result |-> "True", msg |-> "None", at |-> 0]
    ELSE LET r == check_edge(edge_in_range(kind, h, edges[k]), oracle[k])
             rest == check_edges_on(kind, h, edges, oracle, k + 1)
         IN IF r.stop /\ ~(r.result = "None" /\ rest.result = "False")
            THEN [result |-> r.result, msg |-> r.msg, at |-> k]
            ELSE rest

\* the loop from the k-th edge on; at is the edge the call returned at, 0
\* when it returned (True, None) after the loop
RECURSIVE check_edges(_, _, _, _, _)
check_edges(kind, h, edges, oracle, k) ==
    IF k > Len(edges)
    THEN [result |-> "True", msg |-> "None", at |-> 0]
    ELSE LET r == check_edge(edge_in_range(kind, h, edges[k]), oracle[k])
         IN IF r.stop
            THEN [result |-> r.result, msg |-> r.msg, at |-> k]
            ELSE check_edges(kind, h, edges, oracle, k + 1)

is_stutter_correct(h, oracle) ==
    check_edges("stutter", h, stutter_edges(h), oracle, 1)

is_rank_correct(h, oracle) ==
    check_edges("rank", h, rank_edges(h), oracle, 1)

is_progress_correct(h, oracle) ==
    check_edges("progress", h, progress_edges(h, 0), oracle, 1)

(***************************************************************************)
(* SpecCheck: the three checkers called on a hint, under every answer of   *)
(* the solver and of the oracle.  ret records the last call: the checker,  *)
(* the answers and the value returned.                                     *)
(***************************************************************************)
\* as NonTerminationSimple5, with an edge to a location the hint lacks
HintDangling ==
    LET l0 == set_progress(HintSimple5.locs[0], 2, NextPlus(0))
    IN set_locs(Hint({"x"}, Symbs(MaxX)), List2(l0, HintSimple5.locs[1]))

CheckLib == {HintSimple5, HintScenarioB, HintRankedSink, HintDangling}

Oracles(n) == [1..n -> Answers]

\* faulty variant of checked: the checker compiles the hint it examines
checked_compiled(h) == get_trans_system(h)

\* the hint object after a call of a checker: the checkers assign to no
\* field of the hint or of its locations
checked(h) == h

\* the hint is Open, or get_trans_system has completed on it
InitCheck ==
    /\ \E h \in CheckLib :
           \/ hints = <<h>>
           \/ compiles(h) /\ hints = <<get_trans_system(h)>>
    /\ sts = <<>>
    /\ hist = [stepped |-> FALSE]
    /\ ret = [call |-> "init", oracle |-> <<>>, result |-> "True",
              msg |-> "None", at |-> 0]

IsStutterCorrectCall ==
    /\ \E oracle \in Oracles(Len(stutter_edges(hints[1]))) :
           LET r == is_stutter_correct(hints[1], oracle)
           IN ret' = [call |-> "stutter", oracle |-> oracle, result |-> r.result,
                      msg |-> r.msg, at |-> r.at]
    /\ hist' = [stepped |-> TRUE]
    /\ hints' = <<checked(hints[1])>>
    /\ UNCHANGED sts

IsRankCorrectCall ==
    /\ \E oracle \in Oracles(Len(rank_edges(hints[1]))) :
           LET r == is_rank_correct(hints[1], oracle)
           IN ret' = [call |-> "rank", oracle |-> oracle, result |-> r.result,
                      msg |-> r.msg, at |-> r.at]
    /\ hist' = [stepped |-> TRUE]
    /\ hints' = <<checked(hints[1])>>
    /\ UNCHANGED sts

IsProgressCorrectCall ==
    /\ \E oracle \in Oracles(Len(progress_edges(hints[1], 0))) :
           LET r == is_progress_correct(hints[1], oracle)
           IN ret' = [call |-> "progress", oracle |-> oracle, result |-> r.result,
                      msg |-> r.msg, at |-> r.at]
    /\ hist' = [stepped |-> TRUE]
    /\ hints' = <<checked(hints[1])>>
    /\ UNCHANGED sts

NextCheck == IsStutterCorrectCall \/ IsRankCorrectCall \/ IsProgressCorrectCall

SpecCheck == InitCheck /\ [][NextCheck]_vars

\* the edges the last call walked, and the answers for its k-th edge
CallEdges == edges_of(ret.call, hints[1])

\* the k-th edge exists in the hint
InRange(k) == edge_in_range(ret.call, hints[1], CallEdges[k])

\* the k-th edge is correct: its probe is unsatisfiable (whatever the oracle
\* would answer) or the oracle reports that no counterexample exists
EdgeCorrect(k) ==
    /\ InRange(k)
    /\ \/ ret.oracle[k].probe = "unsat"
       \/ ret.oracle[k].probe = "sat" /\ ret.oracle[k].ef = "False"

\* the solver or the oracle gave no answer for the k-th edge
EdgeUnknown(k) ==
    /\ InRange(k)
    /\ \/ ret.oracle[k].probe = "unknown"
       \/ ret.oracle[k].probe = "sat" /\ ret.oracle[k].ef = "None"

\* the k-th edge is the first one that is not correct
FirstNotCorrect(k) == ~EdgeCorrect(k) /\ \A j \in 1..(k - 1) : EdgeCorrect(j)

\* C12: a checker returns (True, None) iff every edge is correct, that is,
\* its probe is unsatisfiable or the oracle reports no counterexample; it
\* returns (False, message) when the oracle returns a counterexample for the
\* first edge that is not correct
C12_CheckerVerdict ==
    ret.call # "init" =>
        /\ (ret.result = "True" /\ ret.msg = "None")
               <=> \A k \in DOMAIN ret.oracle : EdgeCorrect(k)
        /\ \A k \in DOMAIN ret.oracle :
               /\ FirstNotCorrect(k)
               /\ InRange(k)
               /\ ret.oracle[k].probe = "sat"
               /\ ret.oracle[k].ef = "model"
               => ret.result = "False" /\ ret.msg # "None" /\ ret.at = k

\* the progress checker returned (True, None) on two edges: the probe of the
\* first one was unsatisfiable, the oracle found the second one correct
C12_Witness ==
    /\ ret.call = "progress"
    /\ Len(ret.oracle) = 2
    /\ ret.oracle[1] = [probe |-> "unsat", ef |-> "model"]
    /\ ret.oracle[2] = [probe |-> "sat", ef |-> "False"]
    /\ ret.result = "True"

\* C13: when the probe reports unknown or the oracle returns None for the
\* edge a checker is examining, the checker returns (None, message); an edge
\* without an answer is never counted as correct (True) nor reported as
\* violated (False), and no call fails because of it
C13_UnknownIsNone ==
    ret.call # "init" =>
        /\ \A k \in DOMAIN ret.oracle :
               FirstNotCorrect(k) /\ EdgeUnknown(k)
                   => ret.result = "None" /\ ret.msg # "None" /\ ret.at = k
        /\ ret.result = "True" => \A k \in DOMAIN ret.oracle : ~EdgeUnknown(k)
        /\ ret.result = "False" => ~EdgeUnknown(ret.at)
        /\ ret.result = "AssertionError" => ~InRange(ret.at)
        /\ ret.result = "None" => EdgeUnknown(ret.at)

\* the stutter checker found the first edge correct and got no answer from
\* the oracle for the second one
C13_Witness ==
    /\ ret.call = "stutter"
    /\ Len(ret.oracle) = 2
    /\ ret.oracle[1] = [probe |-> "sat", ef |-> "False"]
    /\ ret.oracle[2] = [probe |-> "sat", ef |-> "None"]
    /\ ret.result = "None"
    /\ ret.at = 2

\* the value a checker returns on hint h under the answers oracle
check_result(call, h, oracle) ==
    CASE call = "stutter" -> is_stutter_correct(h, oracle)
      [] call = "rank" -> is_rank_correct(h, oracle)
      [] call = "progress" -> is_progress_correct(h, oracle)

\* the oracle reports a counterexample for the k-th edge
EdgeViolated(k) ==
    InRange(k) /\ ret.oracle[k].probe = "sat" /\ ret.oracle[k].ef = "model"

\* the answers of the last call with those for the edges after the one it
\* returned at replaced by ans
LaterAnswers(ans) ==
    [k \in DOMAIN ret.oracle |->
         IF ret.at # 0 /\ k > ret.at THEN ans ELSE ret.oracle[k]]

MaxConst == 2

\* symbols take their values in -MaxVal..MaxVal
MaxVal == 2

\* self.number(c)
Num(c) == [op |-> "const", name |-> "", v |-> c, args |-> <<>>]

Symbol(n) == [op |-> "symbol", name |-> n, v |-> 0, args |-> <<>>]

Node(op, args) == [op |-> op, name |-> "", v |-> 0, args |-> args]

Plus(args) == IF Len(args) = 1 THEN args[1] ELSE Node("plus", args)

Times(args) == IF Len(args) = 1 THEN args[1] ELSE Node("times", args)

Minus(a, b) == Node("minus", <<a, b>>)

Div(a, b) == Node("div", <<a, b>>)

\* the symbols: x and y, and x_x, the next-state copy of x
SymbolNames == {"x", "y", "x_x"}

symb_is_next(k) == k.name = "x_x"

RECURSIVE SumSeq(_)
SumSeq(q) == IF q = <<>> THEN 0 ELSE q[1] + SumSeq(Tail(q))

RECURSIVE ProdSeq(_)
ProdSeq(q) == IF q = <<>> THEN 1 ELSE q[1] * ProdSeq(Tail(q))

\* integer division of the theory of integers
int_div(a, b) ==
    IF b > 0 THEN a \div b ELSE IF b < 0 THEN -(a \div (-b)) ELSE 0

\* value of term t under the valuation val of the symbols
RECURSIVE EvalTerm(_, _)
EvalTerm(t, val) ==
    CASE t.op = "const" -> t.v
      [] t.op = "symbol" -> val[t.name]
      [] t.op = "plus" -> SumSeq([i \in DOMAIN t.args |-> EvalTerm(t.args[i], val)])
      [] t.op = "times" -> ProdSeq([i \in DOMAIN t.args |-> EvalTerm(t.args[i], val)])
      [] t.op = "minus" -> EvalTerm(t.args[1], val) - EvalTerm(t.args[2], val)
      [] t.op = "div" -> int_div(EvalTerm(t.args[1], val), EvalTerm(t.args[2], val))

\* env.fvo.walk: the names of the symbols of t
RECURSIVE get_free_vars(_)
get_free_vars(t) ==
    IF t.op = "symbol" THEN {t.name}
    ELSE UNION {get_free_vars(t.args[i]) : i \in DOMAIN t.args}

\* env.simplifier.simplify on a term without symbols: its value
simplify(t) == Num(EvalTerm(t, [n \in SymbolNames |-> 0]))

\* TimesDistributor: multiplications are pushed to the leaves
RECURSIVE distribute(_, _)
distribute(p, q) ==
    IF p.op = "plus"
    THEN Plus([i \in DOMAIN p.args |-> distribute(p.args[i], q)])
    ELSE IF p.op = "minus"
    THEN Minus(distribute(p.args[1], q), distribute(p.args[2], q))
    ELSE IF q.op = "plus"
    THEN Plus([i \in DOMAIN q.args |-> distribute(p, q.args[i])])
    ELSE IF q.op = "minus"
    THEN Minus(distribute(p, q.args[1]), distribute(p, q.args[2]))
    ELSE Times(<<p, q>>)

RECURSIVE td(_)
RECURSIVE td_times(_)
td(t) ==
    CASE t.op = "plus" -> Plus([i \in DOMAIN t.args |-> td(t.args[i])])
      [] t.op = "minus" -> Minus(td(t.args[1]), td(t.args[2]))
      [] t.op = "times" -> td_times(t.args)
      [] OTHER -> t

td_times(args) ==
    IF Len(args) = 1 THEN td(args[1])
    ELSE distribute(td_times(SubSeq(args, 1, Len(args) - 1)), td(args[Len(args)]))

(***************************************************************************)
(* Expr: a sum of products, kept as the map symb2coef from a product of    *)
(* symbols to its coefficient.  The products are sorted by fnode_key, so a *)
(* key is identified by the number of occurrences of each atom (a symbol,  *)
(* a division or the constant 1) in it; the key of the constant term is    *)
(* number(1) itself.                                                       *)
(***************************************************************************)
\* the divisions of the input terms
DivAtoms == {Div(Symbol("x"), Num(2))}

Atoms == {Symbol(n) : n \in SymbolNames} \cup DivAtoms \cup {Num(1)}

\* symbs = []
no_symbs == [a \in Atoms |-> 0]

\* the key of a symbol or of a division
atom_key(t) == [a \in Atoms |-> IF a = t THEN 1 ELSE 0]

one == atom_key(Num(1))

key_times(k0, k1) == [a \in Atoms |-> k0[a] + k1[a]]

RECURSIVE key_args(_)
key_args(k) ==
    IF k = no_symbs THEN <<>>
    ELSE LET a == CHOOSE b \in Atoms : k[b] > 0
         IN <<a>> \o key_args([k EXCEPT ![a] = @ - 1])

\* the term that is the key k
key_fnode(k) == Times(key_args(k))

\* defaultdict(int)
EmptyCoef == [k \in {} |-> 0]

coef_get(d, k) == IF k \in DOMAIN d THEN d[k] ELSE 0

\* self.symb2coef[k] += n
coef_add(d, k, n) ==
    [j \in (DOMAIN d) \cup {k} |-> IF j = k THEN coef_get(d, k) + n ELSE d[j]]

\* self.symb2coef[k] += n; if self.symb2coef[k] == 0: self.symb2coef.pop(k, None)
coef_add_pop(d, k, n) ==
    IF coef_get(d, k) + n = 0
    THEN [j \in (DOMAIN d) \ {k} |-> d[j]]
    ELSE coef_add(d, k, n)

\* the factors of a product, nested products flattened
RECURSIVE factors(_)
RECURSIVE factors_seq(_)
factors(t) == IF t.op = "times" THEN factors_seq(t.args) ELSE <<t>>

factors_seq(args) ==
    IF args = <<>> THEN <<>> ELSE factors(args[1]) \o factors_seq(Tail(args))

is_const_factor(f) == f.op = "const" \/ get_free_vars(f) = {}

\* const: the product of the constant factors
factors_const(fs) ==
    ProdSeq([i \in DOMAIN fs |-> IF is_const_factor(fs[i]) THEN simplify(fs[i]).v
                                 ELSE 1])

\* symbs: the other factors
RECURSIVE factors_symbs(_)
factors_symbs(fs) ==
    IF fs = <<>> THEN no_symbs
    ELSE IF is_const_factor(fs[1]) THEN factors_symbs(Tail(fs))
    ELSE key_times(atom_key(fs[1]), factors_symbs(Tail(fs)))

\* self.mgr.Times(sorted(symbs, key=fnode_key)) if symbs else one
factors_key(fs) ==
    IF factors_symbs(fs) = no_symbs THEN one ELSE factors_symbs(fs)

\* faulty variant of plus_fnode_loop: the subtrahend of a difference is added
RECURSIVE plus_fnode_loop_no_neg(_, _)
plus_fnode_loop_no_neg(d, stack) ==
    IF stack = <<>> THEN d
    ELSE LET curr == stack[Len(stack)]
             rest == SubSeq(stack, 1, Len(stack) - 1)
         IN IF curr.op = "const" \/ get_free_vars(curr) = {}
            THEN plus_fnode_loop_no_neg(coef_add_pop(d, one, simplify(curr).v), rest)
            ELSE IF curr.op = "symbol"
            THEN plus_fnode_loop_no_neg(coef_add(d, atom_key(curr), 1), rest)
            ELSE IF curr.op = "plus"
            THEN plus_fnode_loop_no_neg(d, rest \o curr.args)
            ELSE IF curr.op = "minus"
            THEN plus_fnode_loop_no_neg(d, rest \o <<curr.args[1], td(curr.args[2])>>)
            ELSE IF curr.op = "times"
            THEN LET fs == factors(curr)
                 IN plus_fnode_loop_no_neg(
                        coef_add_pop(d, factors_key(fs), factors_const(fs)), rest)
            ELSE plus_fnode_loop_no_neg(coef_add(d, atom_key(curr), 1), rest)

\* Expr.plus_fnode: the loop over the stack of the terms still to be added
RECURSIVE plus_fnode_loop(_, _)
plus_fnode_loop(d, stack) ==
    IF stack = <<>> THEN d
    ELSE LET curr == stack[Len(stack)]
             rest == SubSeq(stack, 1, Len(stack) - 1)
         IN IF curr.op = "const" \/ get_free_vars(curr) = {}
            THEN plus_fnode_loop(coef_add_pop(d, one, simplify(curr).v), rest)
            ELSE IF curr.op = "symbol"
            THEN plus_fnode_loop(coef_add(d, atom_key(curr), 1), rest)
            ELSE IF curr.op = "plus"
            THEN plus_fnode_loop(d, rest \o curr.args)
            ELSE IF curr.op = "minus"
            THEN plus_fnode_loop(d, rest \o <<curr.args[1],
                                               td(Times(<<Num(-1), curr.args[2]>>))>>)
            ELSE IF curr.op = "times"
            THEN LET fs == factors(curr)
                 IN plus_fnode_loop(
                        coef_add_pop(d, factors_key(fs), factors_const(fs)), rest)
            ELSE plus_fnode_loop(coef_add(d, atom_key(curr), 1), rest)

\* an Expr object: its map symb2coef (the type is the integers)
ExprOf(d) == [symb2coef |-> d]

plus_fnode(expr, formula) ==
    ExprOf(plus_fnode_loop(expr.symb2coef, <<td(formula)>>))

\* Expr(env, expr_type, td, formula)
Expr(formula) == plus_fnode(ExprOf(EmptyCoef), formula)

\* Expr._fnode_times
fnode_times(k, rhs) ==
    LET lhs == key_fnode(k)
    IN IF rhs = 0 THEN Num(0)
       ELSE IF rhs = 1 THEN lhs
       ELSE IF lhs = Num(1) THEN Num(rhs)
       ELSE IF lhs.op = "symbol" THEN Times(<<lhs, Num(rhs)>>)
       ELSE IF lhs.op = "times" THEN Times(lhs.args \o <<Num(rhs)>>)
       ELSE Times(<<lhs, Num(rhs)>>)

\* the elements of a set of keys in the order of fnode_key
RECURSIVE sorted_keys(_)
sorted_keys(S) ==
    IF S = {} THEN <<>>
    ELSE LET k == CHOOSE j \in S : TRUE
         IN <<k>> \o sorted_keys(S \ {k})

\* Expr.pysmt_expr
pysmt_expr(expr) ==
    LET keys == sorted_keys({k \in DOMAIN expr.symb2coef : expr.symb2coef[k] # 0})
        to_add == [i \in DOMAIN keys |-> fnode_times(keys[i], expr.symb2coef[keys[i]])]
    IN IF to_add # <<>> THEN Plus(to_add) ELSE Num(0)

(***************************************************************************)
(* SpecExpr: Expr(t).pysmt_expr() for the terms t built from constants,    *)
(* the symbols x and y and a division with at most two nested operators.   *)
(***************************************************************************)
Consts == (-1)..MaxConst

Terms0(names) ==
    {Num(c) : c \in Consts} \cup {Symbol(n) : n \in names}

BinOps(A, B) ==
    {Plus(<<a, b>>) : a \in A, b \in B}
        \cup {Minus(a, b) : a \in A, b \in B}
        \cup {Times(<<a, b>>) : a \in A, b \in B}

Terms1(names) == Terms0(names) \cup BinOps(Terms0(names), Terms0(names))

ExprSymbols == {"x", "y"}

ExprTerms ==
    LET t0 == Terms0(ExprSymbols) \cup DivAtoms
        t1 == t0 \cup BinOps(t0, t0)
    IN t1 \cup BinOps(t1, t0) \cup BinOps(t0, t1)

\* the valuations of the symbols in names (the other symbols are 0)
Valuations(names) ==
    {val \in [SymbolNames -> (-MaxVal)..MaxVal] :
         \A n \in SymbolNames \ names : val[n] = 0}

InitExpr ==
    /\ hints = <<>>
    /\ \E t \in ExprTerms : sts = <<t>>
    /\ hist = [stepped |-> FALSE]
    /\ ret = [call |-> "init", out |-> Num(0)]

\* Expr(env, expr_type, td, t).pysmt_expr()
ExprCall ==
    /\ ret.call = "init"
    /\ ret' = [call |-> "Expr", out |-> pysmt_expr(Expr(sts[1]))]
    /\ hist' = [stepped |-> TRUE]
    /\ UNCHANGED <<hints, sts>>

NextExpr == ExprCall

SpecExpr == InitExpr /\ [][NextExpr]_vars

\* C14: the term rebuilt by Expr(t).pysmt_expr() has the value of t under
\* every valuation of the symbols
C14_RoundTrip ==
    ret.call = "Expr" =>
        \A val \in Valuations(ExprSymbols) :
            EvalTerm(ret.out, val) = EvalTerm(sts[1], val)

\* a product of a difference and a division was normalised into a sum of
\* two products
C14_Witness ==
    /\ ret.call = "Expr"
    /\ sts[1] = Times(<<Minus(Symbol("x"), Symbol("y")), Div(Symbol("x"), Num(2))>>)
    /\ ret.out.op = "plus"
    /\ Len(ret.out.args) = 2

(***************************************************************************)
(* Expr.times and eq2assign.                                               *)
(***************************************************************************)
is_zero(expr) == \A k \in DOMAIN expr.symb2coef : expr.symb2coef[k] = 0

is_one(expr) == DOMAIN expr.symb2coef = {one} /\ expr.symb2coef[one] = 1

\* Expr(env, expr_type, td, const=c)
ExprConst(c) == ExprOf(IF c # 0 THEN coef_add(EmptyCoef, one, c) ELSE EmptyCoef)

\* the key of the product of the keys k0 and k1
times_key(k0, k1) == IF k1 = one THEN k0 ELSE key_times(k0, k1)

RECURSIVE times_sum(_, _, _)
times_sum(d0, d1, pairs) ==
    IF pairs = {} THEN 0
    ELSE LET p == CHOOSE q \in pairs : TRUE
         IN d0[p[1]] * d1[p[2]] + times_sum(d0, d1, pairs \ {p})

\* Expr.times
times(expr0, expr1) ==
    IF is_zero(expr0) THEN expr0
    ELSE IF is_zero(expr1) THEN ExprOf(EmptyCoef)
    ELSE IF is_one(expr1) THEN expr0
    ELSE LET d0 == expr0.symb2coef
             d1 == expr1.symb2coef
             pairs == (DOMAIN d0) \X (DOMAIN d1)
             keys == {times_key(p[1], p[2]) : p \in pairs}
         IN ExprOf([k \in keys |->
                        times_sum(d0, d1,
                                  {p \in pairs : times_key(p[1], p[2]) = k})])

Equals(a, b) == Node("equals", <<a, b>>)

NoneTerm == Node("None", <<>>)

\* _symb, _coef, _is_next = None, None, False
NoSelection == [symb |-> "None", coef |-> 0, is_next |-> FALSE]

\* faulty variant of select_step: the flag of the selected symbol is not updated
select_step_stale_flag(sel, name, v) ==
    LET is_next == symb_is_next(Symbol(name))
    IN IF v # 0 /\ (~sel.is_next \/ is_next)
       THEN LET sel1 == IF v \in {-1, 1} \/ (~sel.is_next /\ is_next)
                        THEN [symb |-> name, coef |-> v, is_next |-> sel.is_next]
                        ELSE sel
            IN [sel |-> sel1, brk |-> sel1.coef = -1 /\ is_next]
       ELSE [sel |-> sel, brk |-> FALSE]

\* faulty variant of select_step: the coefficient -1 is not taken as a unit
select_step_plus_only(sel, name, v) ==
    LET is_next == symb_is_next(Symbol(name))
    IN IF v # 0 /\ (~sel.is_next \/ is_next)
       THEN LET sel1 == IF v = 1 \/ (~sel.is_next /\ is_next)
                        THEN [symb |-> name, coef |-> v, is_next |-> is_next]
                        ELSE sel
            IN [sel |-> sel1, brk |-> sel1.coef = -1 /\ is_next]
       ELSE [sel |-> sel, brk |-> FALSE]

\* faulty variant of select_step: a current-state symbol is examined after a
\* next-state symbol was selected
select_step_no_pref(sel, name, v) ==
    LET is_next == symb_is_next(Symbol(name))
    IN IF v # 0
       THEN LET sel1 == IF v \in {-1, 1} \/ (~sel.is_next /\ is_next)
                        THEN [symb |-> name, coef |-> v, is_next |-> is_next]
                        ELSE sel
            IN [sel |-> sel1, brk |-> sel1.coef = -1 /\ is_next]
       ELSE [sel |-> sel, brk |-> FALSE]

\* the body of the selection loop for the symbol name with coefficient v
select_step(sel, name, v) ==
    LET is_next == symb_is_next(Symbol(name))
    IN IF v # 0 /\ (~sel.is_next \/ is_next)
       THEN LET sel1 == IF v \in {-1, 1} \/ (~sel.is_next /\ is_next)
                        THEN [symb |-> name, coef |-> v, is_next |-> is_next]
                        ELSE sel
            IN [sel |-> sel1, brk |-> sel1.coef = -1 /\ is_next]
       ELSE [sel |-> sel, brk |-> FALSE]

\* for k in sorted(expr.symb2coef.keys(), key=fnode_key): the keys that are
\* symbols, in the order fnode_key gives them
RECURSIVE select_loop(_, _, _)
select_loop(d, names, sel) ==
    IF names = <<>> THEN sel
    ELSE IF atom_key(Symbol(names[1])) \notin DOMAIN d
    THEN select_loop(d, Tail(names), sel)
    ELSE LET r == select_step(sel, names[1], d[atom_key(Symbol(names[1]))])
         IN IF r.brk THEN r.sel ELSE select_loop(d, Tail(names), r.sel)

NoAssign == [symb |-> "None", expr |-> NoneTerm, is_next |-> "None"]

\* eq2assign on an integer equality; fnode_key lists the symbols in the
\* order of their keys
eq2assign(equality, fnode_key) ==
    LET expr == Expr(Minus(equality.args[1], equality.args[2]))
        d == expr.symb2coef
        sel == select_loop(d, fnode_key, NoSelection)
        k == atom_key(Symbol(sel.symb))
        rest == ExprOf([j \in (DOMAIN d) \ {k} |-> d[j]])
        out == pysmt_expr(times(rest, ExprConst(-sel.coef)))
    IN IF is_zero(expr)
       THEN [symb |-> "TRUE", expr |-> NoneTerm, is_next |-> "None"]
       ELSE IF sel.symb = "None" THEN NoAssign
       ELSE IF sel.coef \notin {-1, 1} THEN NoAssign
       ELSE IF sel.symb \in get_free_vars(out)
       THEN [symb |-> "AssertionError", expr |-> NoneTerm, is_next |-> "None"]
       ELSE [symb |-> sel.symb, expr |-> out,
             is_next |-> IF sel.is_next THEN "True" ELSE "False"]

(***************************************************************************)
(* SpecAssign: eq2assign on the integer equalities a = b over x, y and the *)
(* next-state symbol x_x, under every order fnode_key may give the keys.   *)
(***************************************************************************)
KeyOrders ==
    {p \in [1..Cardinality(SymbolNames) -> SymbolNames] :
         \A i, j \in DOMAIN p : i # j => p[i] # p[j]}

InitAssign ==
    /\ hints = <<>>
    /\ \E a \in Terms1(SymbolNames), b \in Terms0(SymbolNames), p \in KeyOrders :
           sts = <<[equality |-> Equals(a, b), fnode_key |-> p]>>
    /\ hist = [stepped |-> FALSE]
    /\ ret = [call |-> "init", symb |-> "None", expr |-> NoneTerm,
              is_next |-> "None"]

Eq2AssignCall ==
    /\ ret.call = "init"
    /\ LET r == eq2assign(sts[1].equality, sts[1].fnode_key)
       IN ret' = [call |-> "eq2assign", symb |-> r.symb, expr |-> r.expr,
                  is_next |-> r.is_next]
    /\ hist' = [stepped |-> TRUE]
    /\ UNCHANGED <<hints, sts>>

NextAssign == Eq2AssignCall

SpecAssign == InitAssign /\ [][NextAssign]_vars

\* the equality holds under the valuation val
EqualityHolds(val) ==
    EvalTerm(sts[1].equality.args[1], val) = EvalTerm(sts[1].equality.args[2], val)

\* the coefficient of the bare symbol n in the normalised difference
DiffCoef(n) ==
    coef_get(Expr(Minus(sts[1].equality.args[1], sts[1].equality.args[2])).symb2coef,
             atom_key(Symbol(n)))

C16_NoneMeansNoUnit ==
    ret.call = "eq2assign" /\ ret.symb = "None" =>
        \A n \in SymbolNames : DiffCoef(n) \notin {-1, 1}

\* C16, amended: when eq2assign returns (None, None, None), no bare
\* next-state symbol has coefficient +1 or -1, and unless a bare next-state
\* symbol has a non-zero coefficient no bare symbol at all has
C16_NoneMeansNoUnitNext ==
    ret.call = "eq2assign" /\ ret.symb = "None" =>
        LET nexts == {n \in SymbolNames : symb_is_next(Symbol(n))}
        IN /\ \A n \in nexts : DiffCoef(n) \notin {-1, 1}
           /\ (\A n \in nexts : DiffCoef(n) = 0) =>
                  \A n \in SymbolNames : DiffCoef(n) \notin {-1, 1}

\* (None, None, None) was returned for x_x + x_x = x: x could be isolated
C16_Witness ==
    /\ ret.call = "eq2assign"
    /\ ret.symb = "None"
    /\ sts[1].equality = Equals(Plus(<<Symbol("x_x"), Symbol("x_x")>>), Symbol("x"))

C39_ExprWithoutSymbol ==
    ret.call = "eq2assign" =>
        /\ ret.symb # "AssertionError"
        /\ ret.symb \in SymbolNames => ret.symb \notin get_free_vars(ret.expr)

(***************************************************************************)
(* Ineq: an equality or inequality kept as lhs op rhs, where lhs maps a    *)
(* product of symbols to its coefficient (an Expr over the parameters) and *)
(* rhs is the Expr of the constant side.                                   *)
(***************************************************************************)
LE(a, b) == Node("le", <<a, b>>)

LT(a, b) == Node("lt", <<a, b>>)

\* lhs = defaultdict(lambda: Expr(env, ineq_type, td))
EmptyLhs == [k \in {} |-> ExprOf(EmptyCoef)]

lhs_get(lhs, k) == IF k \in DOMAIN lhs THEN lhs[k] ELSE ExprOf(EmptyCoef)

lhs_set(lhs, k, e) == [j \in (DOMAIN lhs) \cup {k} |-> IF j = k THEN e ELSE lhs[j]]

\* Expr.plus_const
plus_const(expr, num) == ExprOf(coef_add(expr.symb2coef, one, num))

\* Expr.times_fnode
times_fnode(expr, formula) ==
    IF formula = Num(1) THEN expr ELSE times(expr, Expr(formula))

\* the factors of a product in Ineq._parse: const, symbs and _params
parse_const(fs) ==
    ProdSeq([i \in DOMAIN fs |-> IF fs[i].op = "const" THEN fs[i].v ELSE 1])

is_param(f, params) == f.op = "symbol" /\ f.name \in params

RECURSIVE parse_symbs(_, _)
parse_symbs(fs, params) ==
    IF fs = <<>> THEN no_symbs
    ELSE IF fs[1].op = "const" \/ is_param(fs[1], params)
    THEN parse_symbs(Tail(fs), params)
    ELSE key_times(atom_key(fs[1]), parse_symbs(Tail(fs), params))

parse_params(fs, params) ==
    LET test(f) == is_param(f, params)
    IN SelectSeq(fs, test)

\* Ineq._parse: the loop over the stack
RECURSIVE parse_loop(_, _, _, _)
parse_loop(lhs, rhs, stack, params) ==
    IF stack = <<>> THEN [lhs |-> lhs, rhs |-> rhs]
    ELSE LET curr == stack[Len(stack)]
             rest == SubSeq(stack, 1, Len(stack) - 1)
         IN IF get_free_vars(curr) \subseteq params
            THEN parse_loop(lhs, plus_fnode(rhs, curr), rest, params)
            ELSE IF curr.op = "symbol"
            THEN parse_loop(lhs_set(lhs, atom_key(curr),
                                    plus_const(lhs_get(lhs, atom_key(curr)), 1)),
                            rhs, rest, params)
            ELSE IF curr.op = "plus"
            THEN parse_loop(lhs, rhs, rest \o curr.args, params)
            ELSE IF curr.op = "minus"
            THEN parse_loop(lhs, rhs,
                            rest \o <<curr.args[1],
                                      td(Times(<<Num(-1), curr.args[2]>>))>>,
                            params)
            ELSE IF curr.op = "times"
            THEN LET fs == factors(curr)
                     symbs == parse_symbs(fs, params)
                     coeff == Times(<<Num(parse_const(fs))>> \o parse_params(fs, params))
                 IN parse_loop(lhs_set(lhs, symbs,
                                       plus_fnode(lhs_get(lhs, symbs), coeff)),
                               rhs, rest, params)
            ELSE parse_loop(lhs_set(lhs, atom_key(curr),
                                    plus_const(lhs_get(lhs, atom_key(curr)), 1)),
                            rhs, rest, params)

\* the values met by: for expr in lhs.values(): for val in expr.symb2coef.values()
coef_entries(lhs) ==
    UNION {{<<k, j>> : j \in DOMAIN lhs[k].symb2coef} : k \in DOMAIN lhs}

\* tot_coefs and neg_coefs
tot_coefs(lhs) ==
    Cardinality({e \in coef_entries(lhs) : lhs[e[1]].symb2coef[e[2]] # 0})

neg_coefs(lhs) ==
    Cardinality({e \in coef_entries(lhs) : lhs[e[1]].symb2coef[e[2]] < 0})

\* faulty variant of negate_lhs: the constant side changes sign as well
negate_lhs_and_rhs(parsed) ==
    [lhs |-> [k \in DOMAIN parsed.lhs |-> times_fnode(parsed.lhs[k], Num(-1))],
     rhs |-> times(parsed.rhs, ExprConst(-1))]

\* for expr in lhs.values(): expr.times_fnode(expr.number(-1)); return lhs, rhs
negate_lhs(parsed) ==
    [lhs |-> [k \in DOMAIN parsed.lhs |-> times_fnode(parsed.lhs[k], Num(-1))],
     rhs |-> parsed.rhs]

\* faulty variant of must_negate: the sign is also changed when half are negative
must_negate_half(ineq, lhs) ==
    ineq.op = "equals" /\ 2 * neg_coefs(lhs) >= tot_coefs(lhs) /\ tot_coefs(lhs) > 0

\* if ineq.is_equals(): ... if neg_coefs > tot_coefs / 2
must_negate(ineq, lhs) ==
    ineq.op = "equals" /\ 2 * neg_coefs(lhs) > tot_coefs(lhs)

\* the terms on the stack at the start of Ineq._parse
parse_stack(ineq) == <<td(ineq.args[1]), td(Times(<<Num(-1), ineq.args[2]>>))>>

\* Ineq._parse
parse(ineq, params) ==
    LET parsed == parse_loop(EmptyLhs, ExprOf(EmptyCoef), parse_stack(ineq), params)
    IN IF must_negate(ineq, parsed.lhs)
       THEN negate_lhs(parsed)
       ELSE [lhs |-> parsed.lhs, rhs |-> times(parsed.rhs, ExprConst(-1))]

\* Ineq.__init__
Ineq(ineq, params) ==
    [type |-> IF ineq.op = "le" THEN "LE" ELSE IF ineq.op = "lt" THEN "LT" ELSE "EQ",
     lhs |-> parse(ineq, params).lhs,
     rhs |-> parse(ineq, params).rhs]

\* Ineq.pysmt_ineq
pysmt_ineq(q) ==
    LET keys == sorted_keys({k \in DOMAIN q.lhs : ~is_zero(q.lhs[k])})
        expr == [i \in DOMAIN keys |->
                     IF is_one(q.lhs[keys[i]]) THEN key_fnode(keys[i])
                     ELSE Times(<<key_fnode(keys[i]), pysmt_expr(q.lhs[keys[i]])>>)]
        sum == IF expr # <<>> THEN Plus(expr) ELSE Num(0)
    IN IF q.type = "EQ" THEN Equals(sum, pysmt_expr(q.rhs))
       ELSE IF q.type = "LE" THEN LE(sum, pysmt_expr(q.rhs))
       ELSE LT(sum, pysmt_expr(q.rhs))

\* value of an equality or inequality under the valuation val
HoldsRel(t, val) ==
    CASE t.op = "equals" -> EvalTerm(t.args[1], val) = EvalTerm(t.args[2], val)
      [] t.op = "le" -> EvalTerm(t.args[1], val) <= EvalTerm(t.args[2], val)
      [] t.op = "lt" -> EvalTerm(t.args[1], val) < EvalTerm(t.args[2], val)

(***************************************************************************)
(* SpecIneq: Ineq(a op b) for the terms a, b over x, y and the division,   *)
(* with no parameter or with y as a parameter.                             *)
(***************************************************************************)
IneqTerms0 == Terms0(ExprSymbols) \cup DivAtoms

IneqTerms1 == IneqTerms0 \cup BinOps(IneqTerms0, IneqTerms0)

InitIneq ==
    /\ hints = <<>>
    /\ \E a \in IneqTerms1, b \in IneqTerms0, params \in {{}, {"y"}} :
           \E ineq \in {Equals(a, b), LE(a, b), LT(a, b)} :
               sts = <<[ineq |-> ineq, params |-> params]>>
    /\ hist = [stepped |-> FALSE]
    /\ ret = [call |-> "init", type |-> "EQ", lhs |-> EmptyLhs,
              rhs |-> ExprOf(EmptyCoef)]

\* Ineq(env, ineq, params, td)
IneqCall ==
    /\ ret.call = "init"
    /\ LET q == Ineq(sts[1].ineq, sts[1].params)
       IN ret' = [call |-> "Ineq", type |-> q.type, lhs |-> q.lhs, rhs |-> q.rhs]
    /\ hist' = [stepped |-> TRUE]
    /\ UNCHANGED <<hints, sts>>

NextIneq == IneqCall

SpecIneq == InitIneq /\ [][NextIneq]_vars

\* the non-zero coefficients of an Expr, and of the lhs of an Ineq
NonZero(expr) ==
    [k \in {j \in DOMAIN expr.symb2coef : expr.symb2coef[j] # 0} |-> expr.symb2coef[k]]

NonZeroLhs(lhs) ==
    [k \in {j \in DOMAIN lhs : ~is_zero(lhs[j])} |-> NonZero(lhs[k])]

\* the coefficients d with their sign changed
Opposite(d) == [k \in DOMAIN d |-> -d[k]]

OppositeLhs(l) == [k \in DOMAIN l |-> Opposite(l[k])]

\* the Ineq of the equality with its two sides exchanged
Flipped == Ineq(Equals(sts[1].ineq.args[2], sts[1].ineq.args[1]), sts[1].params)

\* exactly half of the non-zero coefficients of the lhs are negative
HalfNegative(lhs) == 2 * neg_coefs(lhs) = tot_coefs(lhs)

\* C17 as stated: Ineq(a = b) and Ineq(b = a) have the same lhs coefficients
\* and the same rhs
C17_FlipSame ==
    ret.call = "Ineq" /\ ret.type = "EQ" =>
        /\ NonZeroLhs(ret.lhs) = NonZeroLhs(Flipped.lhs)
        /\ NonZero(ret.rhs) = NonZero(Flipped.rhs)

\* C17, amended: Ineq(a = b) and Ineq(b = a) have the same lhs coefficients
\* and the same rhs unless exactly half of the non-zero lhs coefficients are
\* negative; then neither is negated and each is the opposite of the other
C17_FlipSameUnlessHalf ==
    ret.call = "Ineq" /\ ret.type = "EQ" =>
        IF HalfNegative(ret.lhs)
        THEN /\ NonZeroLhs(ret.lhs) = OppositeLhs(NonZeroLhs(Flipped.lhs))
             /\ NonZero(ret.rhs) = Opposite(NonZero(Flipped.rhs))
        ELSE /\ NonZeroLhs(ret.lhs) = NonZeroLhs(Flipped.lhs)
             /\ NonZero(ret.rhs) = NonZero(Flipped.rhs)

\* x - y = 0 was normalised: one of its two coefficients is negative
C17_Witness ==
    /\ ret.call = "Ineq"
    /\ sts[1].ineq = Equals(Minus(Symbol("x"), Symbol("y")), Num(0))
    /\ sts[1].params = {}
    /\ HalfNegative(ret.lhs)
    /\ tot_coefs(ret.lhs) = 2

\* the lhs and rhs of Ineq._parse before the sign is settled
Parsed ==
    parse_loop(EmptyLhs, ExprOf(EmptyCoef), parse_stack(sts[1].ineq), sts[1].params)

\* C18: the Ineq is equivalent to its input; an equality ends with at most
\* half of its non-zero lhs coefficients negative, its lhs coefficients are
\* the opposite of the parsed ones exactly when more than half of those were
\* negative; an inequality keeps its operator and its lhs coefficients
C18_AtMostHalfNegative ==
    ret.call = "Ineq" =>
        /\ \A val \in Valuations(ExprSymbols) :
               HoldsRel(pysmt_ineq([type |-> ret.type, lhs |-> ret.lhs,
                                    rhs |-> ret.rhs]), val)
                   <=> HoldsRel(sts[1].ineq, val)
        /\ ret.type = "EQ" =>
               /\ 2 * neg_coefs(ret.lhs) <= tot_coefs(ret.lhs)
               /\ IF 2 * neg_coefs(Parsed.lhs) > tot_coefs(Parsed.lhs)
                  THEN NonZeroLhs(ret.lhs) = OppositeLhs(NonZeroLhs(Parsed.lhs))
                  ELSE NonZeroLhs(ret.lhs) = NonZeroLhs(Parsed.lhs)
        /\ ret.type # "EQ" =>
               /\ ret.type = (IF sts[1].ineq.op = "le" THEN "LE" ELSE "LT")
               /\ NonZeroLhs(ret.lhs) = NonZeroLhs(Parsed.lhs)

\* the equality -x = y was normalised: both coefficients were negative and
\* are positive in the Ineq
C18_Witness ==
    /\ ret.call = "Ineq"
    /\ sts[1].ineq = Equals(Times(<<Num(-1), Symbol("x")>>), Symbol("y"))
    /\ sts[1].params = {}
    /\ neg_coefs(Parsed.lhs) = 2
    /\ neg_coefs(ret.lhs) = 0
    /\ tot_coefs(ret.lhs) = 2

(***************************************************************************)
(* Changes of location and progress steps of the compiled system (Spec).   *)
(***************************************************************************)
\* the location of the hint that holds in state s, NoValue when none does
loc_of(h, s) == IF s.loc \in DOMAIN h.locs THEN s.loc ELSE NoValue

\* C19: a transition from location idx to the location value dst, dst # idx,
\* has the PROGRESS selector, dst is a key of the progress map of idx and the
\* progress transition to dst holds across the step
C19_ChangeByProgress ==
    [][LET h == hints[1]
           s == sts[1]
           t == sts'[1]
           idx == loc_of(h, s)
       IN idx # NoValue /\ t.loc # idx =>
              /\ is_progress(h, s)
              /\ t.loc \in dsts(h.locs[idx])
              /\ Eval(progress(h.locs[idx], t.loc), s.x, t.x)]_vars

\* the last transition left location 0 of NonTerminationSimple5 for location 1
C19_Witness ==
    /\ hist.stepped
    /\ hints[1].locs = HintSimple5.locs
    /\ hist.src_loc = 0
    /\ sts[1].loc = 1

\* C20: a transition with the PROGRESS selector from a location that has a
\* ranking function starts in a state where the rank is at its minimum
C20_ProgressAtMinRank ==
    [][LET h == hints[1]
           s == sts[1]
           idx == loc_of(h, s)
       IN idx # NoValue /\ h.locs[idx].rf # None /\ is_progress(h, s) =>
              rf_is_min(h.locs[idx].rf, s.x)]_vars

(***************************************************************************)
(* Self-loops, the rank-decrease flag and sinks of the compiled system     *)
(* (Spec).                                                                 *)
(***************************************************************************)
\* C21: a step from location idx to itself with the RANKED selector satisfies
\* the ranked transition of idx, starts with the rank above its minimum and
\* ends with a strictly smaller rank
C21_RankedSelfLoop ==
    [][LET h == hints[1]
           s == sts[1]
           t == sts'[1]
           idx == loc_of(h, s)
       IN idx # NoValue /\ t.loc = idx /\ is_ranked(h, s) =>
              /\ ~is_false(h.locs[idx].rankT)
              /\ Eval(h.locs[idx].rankT, s.x, t.x)
              /\ rf_is_ranked(h.locs[idx].rf, s.x)
              /\ rf_is_decr(h.locs[idx].rf, s.x, t.x)]_vars

\* scenario B has taken the RANKED self-loop from the rank MaxX
C21_Witness ==
    /\ hist.stepped
    /\ hints[1].locs = HintScenarioB.locs
    /\ hist.src_loc = 0
    /\ hist.src_typ = 1
    /\ hist.src_x = MaxX
    /\ sts[1].loc = 0
    /\ sts[1].x = MaxX - 1

\* C22: a step from location idx to itself with the STUTTER selector
\* satisfies the stutter transition of idx, which is not FALSE, and leaves
\* the rank unchanged when idx has a ranking function
C22_StutterSelfLoop ==
    [][LET h == hints[1]
           s == sts[1]
           t == sts'[1]
           idx == loc_of(h, s)
       IN idx # NoValue /\ t.loc = idx /\ is_stutter(h, s) =>
              /\ ~is_false(h.locs[idx].stutterT)
              /\ Eval(h.locs[idx].stutterT, s.x, t.x)
              /\ h.locs[idx].rf # None =>
                     rf_is_const(h.locs[idx].rf, s.x, t.x)]_vars

\* the ranked location whose stutter transition is TRUE has stuttered at a
\* rank above the minimum
C22_Witness ==
    /\ hist.stepped
    /\ hints[1].locs = HintRankFree.locs
    /\ hist.src_loc = 0
    /\ hist.src_typ = 0
    /\ hist.src_x = MaxX
    /\ sts[1].loc = 0
    /\ sts[1].x = MaxX

\* the hint has a rank-decrease flag symbol
has_rank_flag(h) == h.is_rank_decr = "symbol"

\* C23: for a ranked hint the flag equals the RANKED selector in the initial
\* state; after every transition the flag is true if the RANKED selector held
\* before, and only if the flag or the RANKED selector held before
C23_FlagLatch ==
    /\ has_rank_flag(hints[1]) =>
           (is_rank_decr(hints[1], sts[1]) <=> is_ranked(hints[1], sts[1]))
    /\ [][LET h == hints[1]
              s == sts[1]
              t == sts'[1]
          IN has_rank_flag(h) =>
                 /\ is_ranked(h, s) => is_rank_decr(h, t)
                 /\ is_rank_decr(h, t) => is_rank_decr(h, s) \/ is_ranked(h, s)]_vars

\* the flag was false, the RANKED selector held, and the flag is now true
C23_Witness ==
    /\ hist.stepped
    /\ has_rank_flag(hints[1])
    /\ hist.src_typ = 1
    /\ ~hist.src_decr
    /\ sts[1].decr

\* C24: from a location of a ranked hint with the flag set, the flag is set
\* in the next state if the rank is above its minimum and cleared if the rank
\* is at its minimum
C24_FlagAtLocation ==
    [][LET h == hints[1]
           s == sts[1]
           t == sts'[1]
           idx == loc_of(h, s)
       IN has_rank_flag(h) /\ idx # NoValue /\ is_rank_decr(h, s) =>
              /\ rf_is_ranked(h.locs[idx].rf, s.x) => is_rank_decr(h, t)
              /\ rf_is_min(h.locs[idx].rf, s.x) => ~is_rank_decr(h, t)]_vars

\* the flag was set at location 0 with the rank at its minimum and is cleared
C24_Witness ==
    /\ hist.stepped
    /\ has_rank_flag(hints[1])
    /\ hist.src_loc = 0
    /\ hist.src_decr
    /\ rf_is_min(hints[1].locs[0].rf, hist.src_x)
    /\ ~sts[1].decr

\* C26: every transition from a location without progress edges goes to the
\* same location, with the STUTTER or the RANKED selector
C26_SinkSelfLoops ==
    [][LET h == hints[1]
           s == sts[1]
           t == sts'[1]
           idx == loc_of(h, s)
       IN idx # NoValue /\ dsts(h.locs[idx]) = {} =>
              /\ t.loc = idx
              /\ is_stutter(h, s) \/ is_ranked(h, s)]_vars

\* the sink of the ranked hint was entered and has taken a RANKED self-loop
C26_Witness ==
    /\ hist.stepped
    /\ hints[1].locs = HintRankedSink.locs
    /\ dsts(hints[1].locs[1]) = {}
    /\ hist.src_loc = 1
    /\ hist.src_typ = 1
    /\ sts[1].loc = 1

\* every progress destination of h is the index of a location of h
valid_dsts(h) == \A idx \in DOMAIN h.locs : \A dst \in dsts(h.locs[idx]) : dst < len(h.locs)

\* C33: for a hint whose progress destinations are all locations, a
\* transition from a location ends at a location, and a state at a location
\* in which active is false has no successor
C33_ActivationKept ==
    LET h == hints[1]
    IN valid_dsts(h) =>
           /\ hist.stepped /\ hist.src_loc \in DOMAIN h.locs =>
                  loc_of(h, sts[1]) # NoValue
           /\ loc_of(h, sts[1]) # NoValue /\ ~sts[1].active =>
                  Succ(h, sts[1]) = {}

\* a progress step between two locations ended in a state where active is
\* false: the run stops there
C33_Witness ==
    /\ hist.stepped
    /\ hist.src_loc \in DOMAIN hints[1].locs
    /\ loc_of(hints[1], sts[1]) \notin {NoValue, hist.src_loc}
    /\ ~sts[1].active
    /\ Succ(hints[1], sts[1]) = {}

(***************************************************************************)
(* SpecOps: one Expr object under any sequence of plus_const, plus_fnode,  *)
(* plus and times calls.  sts holds the object, ret the last call and its  *)
(* argument (an Expr, for plus_const the Expr of the number).              *)
(***************************************************************************)
\* coefficients are kept within -MaxCoef..MaxCoef
MaxCoef == 2

\* a key holds at most MaxDeg factors
MaxDeg == 2

\* Expr.plus
RECURSIVE plus_loop(_, _, _)
plus_loop(d, d1, keys) ==
    IF keys = {} THEN d
    ELSE LET k == CHOOSE j \in keys : TRUE
         IN plus_loop(coef_add(d, k, d1[k]), d1, keys \ {k})

plus(expr0, expr1) ==
    ExprOf(plus_loop(expr0.symb2coef, expr1.symb2coef, DOMAIN expr1.symb2coef))

\* the numbers handed to plus_const
OpNums == {-1, 1, 2}

\* the terms handed to plus_fnode and, as Expr(term), to plus and times
OpTerms ==
    {Num(2), Num(-1), Symbol("x"), Times(<<Num(-1), Symbol("x")>>),
     Plus(<<Symbol("x"), Num(1)>>)}

\* the number of factors of key k
key_deg(k) == SumSeq([i \in DOMAIN key_args(k) |-> 1])

\* the object stays within the bounds of the model
in_bounds(expr) ==
    \A k \in DOMAIN expr.symb2coef :
        /\ expr.symb2coef[k] \in (-MaxCoef)..MaxCoef
        /\ key_deg(k) <= MaxDeg

InitOps ==
    /\ hints = <<>>
    /\ sts = <<ExprOf(EmptyCoef)>>
    /\ hist = [stepped |-> FALSE]
    /\ ret = [call |-> "init", arg |-> ExprOf(EmptyCoef)]

\* self.plus_const(num)
PlusConstCall ==
    /\ \E num \in OpNums :
           /\ in_bounds(plus_const(sts[1], num))
           /\ sts' = <<plus_const(sts[1], num)>>
           /\ ret' = [call |-> "plus_const", arg |-> ExprConst(num)]
    /\ hist' = [stepped |-> TRUE]
    /\ UNCHANGED hints

\* self.plus_fnode(formula)
PlusFnodeCall ==
    /\ \E formula \in OpTerms :
           /\ in_bounds(plus_fnode(sts[1], formula))
           /\ sts' = <<plus_fnode(sts[1], formula)>>
           /\ ret' = [call |-> "plus_fnode", arg |-> Expr(formula)]
    /\ hist' = [stepped |-> TRUE]
    /\ UNCHANGED hints

\* self.plus(expr)
PlusCall ==
    /\ \E formula \in OpTerms :
           /\ in_bounds(plus(sts[1], Expr(formula)))
           /\ sts' = <<plus(sts[1], Expr(formula))>>
           /\ ret' = [call |-> "plus", arg |-> Expr(formula)]
    /\ hist' = [stepped |-> TRUE]
    /\ UNCHANGED hints

\* self.times(expr)
TimesCall ==
    /\ \E formula \in OpTerms :
           /\ in_bounds(times(sts[1], Expr(formula)))
           /\ sts' = <<times(sts[1], Expr(formula))>>
           /\ ret' = [call |-> "times", arg |-> Expr(formula)]
    /\ hist' = [stepped |-> TRUE]
    /\ UNCHANGED hints

NextOps == PlusConstCall \/ PlusFnodeCall \/ PlusCall \/ TimesCall

SpecOps == InitOps /\ [][NextOps]_vars

\* the keys of expr whose coefficient is not zero
NonZeroKeys(expr) == {k \in DOMAIN expr.symb2coef : expr.symb2coef[k] # 0}

\* C29: is_zero() is true iff no coefficient is non-zero, and is_one() is
\* true iff the only non-zero coefficient is 1, on the key of the constant
\* (entries whose coefficient is zero do not count)
C29_ZeroOne ==
    LET expr == sts[1]
    IN /\ is_zero(expr) <=> NonZeroKeys(expr) = {}
       /\ is_one(expr) <=>
              NonZeroKeys(expr) = {one} /\ expr.symb2coef[one] = 1

\* key k is the constant 1, a symbol, a division or a product of symbols and
\* divisions without a constant factor
canonical_key(k) == k = one \/ k[Num(1)] = 0

\* C30: every key of the map is canonical, and times gives the keys that the
\* call with the two objects exchanged gives
C30_CanonicalKeys ==
    /\ \A k \in DOMAIN sts[1].symb2coef : canonical_key(k)
    /\ \A formula \in OpTerms :
           NonZeroKeys(times(sts[1], Expr(formula))) =
               NonZeroKeys(times(Expr(formula), sts[1]))

(***************************************************************************)
(* SpecReal: Ineq.to_real called, once or more, on an Ineq built from an   *)
(* integer relation.  sts holds the object with the type of its rhs, ret   *)
(* the last call and the object before it.                                 *)
(***************************************************************************)
\* to_real is called at most MaxCalls times on an object
MaxCalls == 2

\* mgr.ToReal(k), and mgr.Real(1) for the key of the constant
ToReal(k) == [toreal |-> k]

\* Expr.get_real
get_real(expr) ==
    LET d == expr.symb2coef
    IN ExprOf([rk \in {ToReal(k) : k \in {j \in DOMAIN d : d[j] # 0}} |->
                   d[rk.toreal]])

\* faulty variant of to_real: the rhs of a strict inequality is kept
to_real_no_tighten(q) ==
    IF q.expr_type # "REAL"
    THEN [type |-> IF q.type = "LT" THEN "LE" ELSE q.type,
          rhs |-> get_real(q.rhs),
          lhs |-> [rk \in {ToReal(k) : k \in DOMAIN q.lhs} |->
                       get_real(q.lhs[rk.toreal])],
          expr_type |-> "REAL"]
    ELSE q

\* Ineq.to_real
to_real(q) ==
    IF q.expr_type # "REAL"
    THEN [type |-> IF q.type = "LT" THEN "LE" ELSE q.type,
          rhs |-> get_real(IF q.type = "LT" THEN plus_const(q.rhs, -1)
                           ELSE q.rhs),
          lhs |-> [rk \in {ToReal(k) : k \in DOMAIN q.lhs} |->
                       get_real(q.lhs[rk.toreal])],
          expr_type |-> "REAL"]
    ELSE q

InitReal ==
    /\ hints = <<>>
    /\ \E a \in IneqTerms1, b \in IneqTerms0, params \in {{}, {"y"}} :
           \E ineq \in {Equals(a, b), LE(a, b), LT(a, b)} :
               LET q == Ineq(ineq, params)
               IN sts = <<[type |-> q.type, lhs |-> q.lhs, rhs |-> q.rhs,
                           expr_type |-> "INT"]>>
    /\ hist = [stepped |-> FALSE, calls |-> 0]
    /\ ret = [call |-> "init", before |-> sts[1]]

\* self.to_real()
ToRealCall ==
    /\ hist.calls < MaxCalls
    /\ sts' = <<to_real(sts[1])>>
    /\ ret' = [call |-> "to_real", before |-> sts[1]]
    /\ hist' = [stepped |-> TRUE, calls |-> hist.calls + 1]
    /\ UNCHANGED hints

NextReal == ToRealCall

SpecReal == InitReal /\ [][NextReal]_vars

\* the value of the key k of a map of type expr_type under the valuation val
key_value(k, expr_type, val) ==
    EvalTerm(key_fnode(IF expr_type = "REAL" THEN k.toreal ELSE k), val)

\* the value of an Expr of type expr_type under val
RECURSIVE expr_value(_, _, _, _)
expr_value(d, keys, expr_type, val) ==
    IF keys = {} THEN 0
    ELSE LET k == CHOOSE j \in keys : TRUE
         IN d[k] * key_value(k, expr_type, val)
                + expr_value(d, keys \ {k}, expr_type, val)

\* the value of the lhs of the Ineq q under val
RECURSIVE lhs_value(_, _, _)
lhs_value(q, keys, val) ==
    IF keys = {} THEN 0
    ELSE LET k == CHOOSE j \in keys : TRUE
         IN key_value(k, q.expr_type, val)
                * expr_value(q.lhs[k].symb2coef, DOMAIN q.lhs[k].symb2coef,
                             q.expr_type, val)
                + lhs_value(q, keys \ {k}, val)

\* the Ineq q holds under val
ineq_holds(q, val) ==
    LET l == lhs_value(q, DOMAIN q.lhs, val)
        r == expr_value(q.rhs.symb2coef, DOMAIN q.rhs.symb2coef, q.expr_type, val)
    IN CASE q.type = "EQ" -> l = r
         [] q.type = "LE" -> l <= r
         [] q.type = "LT" -> l < r

\* the constant of the rhs of q
rhs_const(q) ==
    coef_get(q.rhs.symb2coef, IF q.expr_type = "REAL" THEN ToReal(one) ELSE one)

\* C32: to_real on an integer-typed Ineq makes it real-typed, turns < into <=
\* with the constant of the rhs decreased by 1, keeps the operator and the
\* constant of a <= or =, and keeps the integer solutions; on a real-typed
\* Ineq it changes nothing
C32_ToReal ==
    ret.call = "to_real" =>
        LET b == ret.before
            a == sts[1]
        IN IF b.expr_type = "INT"
           THEN /\ a.expr_type = "REAL"
                /\ b.type = "LT" =>
                       a.type = "LE" /\ rhs_const(a) = rhs_const(b) - 1
                /\ b.type # "LT" =>
                       a.type = b.type /\ rhs_const(a) = rhs_const(b)
                /\ \A val \in Valuations(ExprSymbols) :
                       ineq_holds(a, val) <=> ineq_holds(b, val)
           ELSE a = b

\* to_real was called twice on x < 1: the first call gave x <= 0
C32_Witness ==
    /\ ret.call = "to_real"
    /\ hist.calls = MaxCalls
    /\ ret.before.expr_type = "REAL"
    /\ sts[1].type = "LE"
    /\ DOMAIN sts[1].lhs = {ToReal(atom_key(Symbol("x")))}
    /\ rhs_const(sts[1]) = 0
    /\ \E val \in Valuations(ExprSymbols) : ~ineq_holds(sts[1], val)

(***************************************************************************)
(* SpecArb: Hint.at_most_1_ranked and Hint.disjoint_symbs on a list of     *)
(* hints of which some are open and some compiled.  ret records the last   *)
(* call, the hints for which a formula was emitted, in order, and where    *)
(* the call stopped.                                                       *)
(***************************************************************************)
\* a hint that owns no symbol
HintIdle == set_locs(Hint({}, Symbs(MaxX)), HintNested.locs)

\* the hints of the lists: open or compiled, ranked or not
ArbLib ==
    {HintNested, HintScenarioB, HintIdle,
     get_trans_system(HintNested), get_trans_system(HintScenarioB)}

\* faulty variant of ranked_asserts: the three assertions are missing
ranked_asserts_none(h) == TRUE

\* the assertions of at_most_1_ranked on the hint h
ranked_asserts(h) ==
    /\ h.t_is_stutter # "None"
    /\ h.t_is_ranked # "None"
    /\ h.is_rank_decr # "None"

\* Hint.at_most_1_ranked as a generator: the hints whose formula was yielded
\* before the loop ended or an assertion failed at the hint `at`
RECURSIVE at_most_1_ranked_loop(_, _, _)
at_most_1_ranked_loop(hs, idx, out) ==
    IF idx = len(hs) THEN [result |-> "ok", at |-> NoValue, out |-> out]
    ELSE IF ~ranked_asserts(hs[idx])
    THEN [result |-> "AssertionError", at |-> idx, out |-> out]
    ELSE IF hs[idx].t_is_ranked = "FALSE"
    THEN at_most_1_ranked_loop(hs, idx + 1, out)
    ELSE IF hs[idx].is_rank_decr = "FALSE"
    THEN [result |-> "AssertionError", at |-> idx, out |-> out]
    ELSE at_most_1_ranked_loop(hs, idx + 1, Append(out, idx))

InitArb ==
    /\ \E n \in 0..MaxHints : hints \in [0..(n - 1) -> ArbLib]
    /\ sts = <<>>
    /\ hist = [stepped |-> FALSE]
    /\ ret = [call |-> "init", result |-> "ok", at |-> NoValue, out |-> <<>>]

\* list(Hint.at_most_1_ranked(env, hints, active))
AtMost1RankedCall ==
    /\ LET r == at_most_1_ranked_loop(hints, 0, <<>>)
       IN ret' = [call |-> "at_most_1_ranked", result |-> r.result,
                  at |-> r.at, out |-> r.out]
    /\ hist' = [stepped |-> TRUE]
    /\ UNCHANGED <<hints, sts>>

\* list(Hint.disjoint_symbs(env, hints, active))
DisjointSymbsArbCall ==
    /\ LET r == disjoint_symbs(hints)
       IN ret' = [call |-> "disjoint_symbs", result |-> "ok", at |-> NoValue,
                  out |-> [k \in DOMAIN r |-> r[k].h0]]
    /\ hist' = [stepped |-> TRUE]
    /\ UNCHANGED <<hints, sts>>

NextArb == AtMost1RankedCall \/ DisjointSymbsArbCall

SpecArb == InitArb /\ [][NextArb]_vars

\* the hints of the list on which get_trans_system has not been called
OpenHints == {i \in DOMAIN hints : is_open(hints[i])}

\* the compiled hints of the list that have a ranking function
CompiledRanked == {i \in DOMAIN hints : hints[i].is_rank_decr = "symbol"}

\* the hint h as it was before get_trans_system
reopened(h) == set_locs(Hint(h.owned_symbs, h.all_symbs), h.locs)

====
